---- MODULE Spec2Model ----
(***************************************************************************)
(* A model of the chat client: the conversation creation dialog            *)
(* (NewChatModal.createChat) running in two browser sessions against one   *)
(* shared store, and the message stream controller with its composer       *)
(* (ChatWindow) of one session.                                            *)
(***************************************************************************)
EXTENDS Integers, Sequences, FiniteSets, Bags, TLC

\* ------------------------------------------------------------------ bounds
\* How many conversation rows the store may hold.
MaxConvs == 3

None == "none"
\* conversationId while no ChatWindow is mounted (null).
NoConv == 0

\* ------------------------------------------------------------ text helpers
\* A string is a sequence of one-character strings.

RECURSIVE TrimStart(_)
TrimStart(s) ==
    IF s = <<>> THEN <<>>
    ELSE IF Head(s) = " " THEN TrimStart(Tail(s)) ELSE s

RECURSIVE TrimEnd(_)
TrimEnd(s) ==
    IF s = <<>> THEN <<>>
    ELSE IF s[Len(s)] = " " THEN TrimEnd(SubSeq(s, 1, Len(s) - 1)) ELSE s

\* String.prototype.trim
Trim(s) == TrimEnd(TrimStart(s))

LowerChar(c) == CASE c = "A" -> "a" [] c = "B" -> "b" [] OTHER -> c

\* String.prototype.toLowerCase
ToLowerCase(s) == [i \in 1..Len(s) |-> LowerChar(s[i])]

\* NewChatModal: const normalizeEmail = (raw) => raw.trim().toLowerCase()
normalizeEmail(raw) == ToLowerCase(Trim(raw))

\* ------------------------------------------------------------------- store
\* The signed-up identities and their rows of the profiles table.
Users == {"A", "B"}

profiles == { [id |-> "A", email |-> <<"a">>],
              [id |-> "B", email |-> <<"b">>] }

\* A session's call whose dialog was closed while it ran; one at a time (the
\* user closes no second dialog with a running call before that call has ended).
Orphan(u) == IF u = "A" THEN "A2" ELSE "B2"

\* What can run createChat: the dialog of each session and its orphaned call.
Callers == Users \cup { Orphan(u) : u \in Users }

\* Prop currentUserId of the dialog caller k's call was started from.
CurrentUserId(k) == IF k \in {"A", "A2"} THEN "A" ELSE "B"

\* What a user may type into the e-mail field of the dialog.
RawEmails == { <<"a">>, <<"b">>, <<"B">>, <<" ", "b">>, <<"A", " ">>, <<" ">>, <<>>, <<"a", "b">> }

ConvIds == 1..MaxConvs

VARIABLES
    conversations,              \* table conversations: set of [id, is_group, name, created_at]
    conversation_participants,  \* table conversation_participants: set of [conversation_id, user_id]
    modal                       \* per session: its NewChatModal and the call started from
                                \* it; and the call of a dialog closed while it ran

createVars == <<conversations, conversation_participants, modal>>

\* ---- the ChatWindow of one session
VARIABLES
    \* ---- backend
    msgs,            \* table messages: set of rows
    notifiable,      \* ids of the rows inserted while the open channel existed
    tracked,         \* ids of the channels that hold a presence entry of Self
    \* ---- component state (useState) and props
    conversationId,  \* prop conversationId; NoConv while no ChatWindow is mounted
    messages,        \* the rendered list: a sequence of rows
    loading,
    presenceState,   \* set of <<key, presence>>
    typingUsers,     \* sequence of identity ids
    \* ---- refs and the effect's locals
    channel,         \* the channel the running effect created: [id, conv], or NoChannel
    subscribed,      \* the open channel has reported SUBSCRIBED
    channelRef,      \* channelRef.current: a channel, or NoChannel
    closing,         \* channels this ChatWindow removed whose removal has not
                     \* completed: their status callbacks are still to come
    leftBehind,      \* the same of the ChatWindows that were unmounted: their
                     \* callbacks write the ref of an instance that is gone
    fetches          \* the bag of the outstanding fetchMessages calls of this component

streamVars == <<msgs, notifiable, tracked, conversationId, messages, loading,
                presenceState, typingUsers, channel, subscribed, channelRef,
                closing, leftBehind, fetches>>

VARIABLES
    newMessage,        \* the composer text
    sending,
    uploading,
    typingTimeoutRef,  \* typingTimeoutRef.current: a timer id, or 0 for null
    timers,            \* the pending setTimeout callbacks: [id, remaining, chan]
    inflight,          \* the message inserts issued and not yet resolved, oldest first
    upload,            \* the running handleFileUpload call, or NoUpload
    storage,           \* the paths of the files held by the object store
    \* ---- what an observer of the session has seen
    sinceKey,          \* ms since the last handleTyping call (capped at the quiet period)
    sentLog,           \* the typing broadcasts sent since the last keystroke or cleanup
    lastSend,          \* the last sendMessage call: its arguments and what it did
    alertShown         \* handleFileUpload's alert is on screen

composerVars == <<newMessage, sending, uploading, typingTimeoutRef, timers, inflight,
                  upload, storage, sinceKey, sentLog, lastSend, alertShown>>

\* ---- the ConversationList of one session
VARIABLES
    listUser,          \* prop currentUserId; None while no ConversationList is mounted
    listing,           \* state `conversations`: the displayed sequence of entries
    listLoading,       \* state `loading`
    currentUserEmail,  \* state `currentUserEmail` (<<>>: '')
    listChannels,      \* the identities whose 'conversation_list_changes' channel is open
    listNotes,         \* insert notifications not yet handled: [user, conv]
    listFetches,       \* the running fetchConversations calls, oldest first
    listObs            \* observer: how many of the oldest running calls were started
                       \* before a call that has already ended (overtaken), and the
                       \* listing left by the latest-started call that has ended (newest)

listVars == <<listUser, listing, listLoading, currentUserEmail, listChannels,
              listNotes, listFetches, listObs>>

\* ---- the ChatWindow whose handleTyping asks the client for a channel
VARIABLES
    typingChannels     \* the channels handleTyping opened by supabase.channel(...)

chatVars == <<streamVars, composerVars, typingChannels>>

VARIABLES
    viewState,             \* App state `viewState`: "LOADING", "AUTH" or "CHAT"
    session,               \* App state `session`: the identity signed in, or None for null
    activeConversationId,  \* App state `activeConversationId`; NoConv for null
    showNewChatModal,      \* App state `showNewChatModal`
    sessionCheck           \* the getSession() promise of App's effect is still pending

appVars == <<viewState, session, activeConversationId, showNewChatModal, sessionCheck>>

VARIABLES
    seedRun                \* the running seed() call: its position and locals

seedVars == <<seedRun>>
vars == <<createVars, chatVars, listVars, appVars, seedVars>>

\* A row of the conversations table. name is <<>> for null; created_at is
\* filled in by the store (insert({ is_group: false }) passes neither).
ConvRow(id, is_group, name, created_at) ==
    [id |-> id, is_group |-> is_group, name |-> name, created_at |-> created_at]

\* The error messages createChat can set.
ErrInvalidEmail == "Please enter a valid email."
ErrLookup       == "Failed to lookup user."
ErrNotFound     == "User not found. Ensure the user has signed up (and that profiles table is populated)."
ErrSelf         == "You can't start a chat with yourself."
ErrCheck        == "Failed to check existing conversations."
ErrCreate       == "Failed to create conversation."
ErrNoId         == "Failed to create conversation (no id returned)."
ErrVerify       == "Failed to verify participants after insert error."
ErrAddParts     == "Failed to add participants."

\* What the backend answers to a request: { data, error }. `failed` tells that
\* error is set, `message` is error.message ("" when the error carries none)
\* and `data` tells that data is set.
Answered == [failed |-> FALSE, message |-> "", data |-> TRUE]
NoData == [failed |-> FALSE, message |-> "", data |-> FALSE]
Failed(message) == [failed |-> TRUE, message |-> message, data |-> FALSE]

\* The answers to a select or an insert.
Answers == { Answered, Failed(""), Failed("denied") }

\* err.message || fallback
ErrorText(err, fallback) == IF err.message # "" THEN err.message ELSE fallback

\* A freshly mounted dialog: useState(""), useState(false), useState("").
ModalInit ==
    [ pc      |-> "idle",     \* where the running createChat call is suspended;
                              \* "idle": none runs, "closed": none runs and the
                              \* dialog is not on screen
      loading |-> FALSE,
      error   |-> "",
      target  |-> <<>>,       \* targetEmail of the latest call
      profile |-> None,       \* profile.id found by its lookup
      conv    |-> 0,          \* conv.id of the row it inserted (0: none)
      partInsertError |-> NoData,  \* the answer to its participant insert
      created |-> 0,          \* the id passed to onCreated (0: not called)
      closed  |-> FALSE ]     \* onClose was called by a createChat call

\* No dialog on screen and no call.
NoDialog == [ModalInit EXCEPT !.pc = "closed"]

\* The call of dialog d once App has stopped rendering it: the dialog's state
\* is gone, the call goes on, and its setLoading and setError change nothing
\* any more.
Detach(d) == [d EXCEPT !.loading = FALSE, !.error = ""]

\* The mutant of CountsEqual2 that never finds a conversation.
CountsNeverTwo(self, other) == {}

\* The ids of the conversations that hold a participant link for each of the
\* two identities: the keys of `counts` whose count is 2.
CountsEqual2(self, other) ==
    LET parts == { p \in conversation_participants : p.user_id \in {self, other} }
        counts(cid) == Cardinality({ p \in parts : p.conversation_id = cid })
    IN  { cid \in { p.conversation_id : p \in parts } : counts(cid) = 2 }

\* ===================================================== ChatWindow (one session)
\* How many rows the messages table may hold.
MaxMsgs == 2
\* The largest created_at value (in ms) the store assigns.
MaxTs == 2
\* How many history fetches may be outstanding at once.
MaxFetches == 2
\* How many channels may be removed while their removal has not completed.
MaxClosing == 1
\* On how many removed channels a presence entry of this client may remain.
MaxStale == 1

\* currentUserId of the modelled session, and the sender of the other rows.
Self == "A"
Peer == "B"

\* No channel object (null).
NoChannel == [id |-> 0, conv |-> 0]

\* The conversations the session may open.
ChatConvs == {1, 2}
MsgIds == 1..MaxMsgs

\* ------------------------------------------------------------ pure helpers
\* new Date(m.created_at).getTime()
GetTime(m) == m.created_at

\* Array.prototype.sort with (a, b) => getTime(a) - getTime(b): a stable sort,
\* so an element goes behind the elements that compare equal to it.
RECURSIVE InsertByTime(_, _)
InsertByTime(sorted, m) ==
    IF sorted = <<>> THEN <<m>>
    ELSE IF GetTime(sorted[Len(sorted)]) - GetTime(m) <= 0
         THEN Append(sorted, m)
         ELSE Append(InsertByTime(SubSeq(sorted, 1, Len(sorted) - 1), m), sorted[Len(sorted)])

RECURSIVE SortByTime(_)
SortByTime(s) ==
    IF s = <<>> THEN <<>>
    ELSE InsertByTime(SortByTime(SubSeq(s, 1, Len(s) - 1)), s[Len(s)])

\* The mutant of addMessageIfNew that appends without looking for the id.
AddMessageNoDedupe(prev, msg) == SortByTime(Append(prev, msg))

\* addMessageIfNew: the updater passed to setMessages.
AddMessageIfNew(prev, msg) ==
    IF \E i \in 1..Len(prev) : prev[i].id = msg.id THEN prev
    ELSE SortByTime(Append(prev, msg))

\* The answers the store may give to
\* select('*').eq('conversation_id', c).order('created_at', ascending): the rows of
\* c ascending by created_at, rows of equal created_at in any order.
HistoryOf(c) ==
    LET rows == { m \in msgs : m.conversation_id = c }
        n    == Cardinality(rows)
    IN  { s \in [1..n -> rows] :
            /\ \A i, j \in 1..n : i < j => s[i] # s[j]
            /\ \A i \in 1..(n - 1) : s[i].created_at <= s[i + 1].created_at }

\* A store row as the realtime change feed and select('*') return it.
Row(id, c, sender, content, atts, ts) ==
    [ id |-> id, conversation_id |-> c, sender_id |-> sender,
      content |-> content, attachments |-> atts, created_at |-> ts ]

\* ------------------------------------------------------------- composer state
\* How many files the object store may hold.
MaxFiles == 1

\* The quiet period of the typing timer: setTimeout(..., 2000).
TYPING_TIMEOUT_MS == 2000

\* What the user may have in the composer input after a keystroke.
Texts == { <<>>, <<" ">>, <<"a", " ">> }
\* No handleFileUpload call is running.
NoUpload == [phase |-> "idle"]
\* sendMessage's parameter `text` when the caller leaves it out.
Undefined == <<"undefined">>
\* A null content column.
Null == <<"null">>
\* filePath = `${conversationId}/${fileName}`: where handleFileUpload stores a
\* file; the attachment of a row names its file by this path.
FilePath(c, file) == [conv |-> c, file |-> file]
\* A null attachments column (no file is stored under the path of no conversation).
NoAttachments == << FilePath(0, 0) >>

\* The mutant of ClearTimeout that leaves the timer pending.
ClearTimeoutForgotten(pending, id) == pending

\* if (typingTimeoutRef.current) clearTimeout(typingTimeoutRef.current)
ClearTimeout(pending, id) ==
    IF id # 0 THEN { t \in pending : t.id # id } ELSE pending

\* The id setTimeout returns: one no pending timer has.
FreshTimerId(pending) ==
    CHOOSE i \in 1..(Cardinality(pending) + 1) : i \notin { t.id : t \in pending }

\* How many channels the handleTyping that keeps no channelRef may open.
MaxTypingChannels == 2
\* How many timer callbacks may be pending at once where the cleanup clears none.
MaxTimers == 1
\* How many rows the list may show where notifications are appended as they come.
MaxRendered == 3

\* The id of a newly created channel object: one that no ref or closure holds.
FreshChannelId(held) ==
    CHOOSE i \in 1..(Cardinality(held) + 1) : i \notin held

\* The state a render closes over: what sendMessage reads when it is called.
Closure == [ newMessage |-> newMessage, sending |-> sending,
             conversationId |-> conversationId ]

\* ------------------------------------------------ effect on conversationId
\* The cleanup function returned by the effect, as the values it leaves.
TrackedAfterCleanup ==
    tracked \ ({channel.id} \cup (IF channelRef # NoChannel THEN {channelRef.id} ELSE {}))
TimersAfterCleanup == ClearTimeout(timers, typingTimeoutRef)
\* `late`: the removal has not completed when the cleanup returns (removeChannel
\* is not awaited), so the removed channel still reports statuses afterwards.
ClosingAfterCleanup(late) == IF late THEN closing \cup {channel} ELSE closing

\* The body of the effect for conversation c, run when `held` channel ids are in use.
Effect(c, held) ==
    /\ loading' = TRUE
    /\ messages' = <<>>
    /\ presenceState' = {}
    /\ typingUsers' = <<>>
    /\ channel' = [id |-> FreshChannelId(held), conv |-> c]
    /\ subscribed' = FALSE
    /\ notifiable' = {}

\* App renders ChatWindow for conversation c: a new instance with its own refs
\* (channelRef null) that has removed no channel yet, whose effect runs for the
\* first time. The channels the earlier instances removed stay as they are:
\* what they still report goes to the refs of those instances.
MountEffect(c) ==
    /\ conversationId = NoConv
    /\ BagCardinality(fetches) < MaxFetches
    /\ conversationId' = c
    /\ Effect(c, { ch.id : ch \in closing \cup leftBehind \cup typingChannels }
                 \cup { t.chan.id : t \in timers } \cup tracked)
    /\ fetches' = fetches (+) SetToBag({ [conv |-> c, phase |-> "req", error |-> FALSE, data |-> <<>>] })
    /\ channelRef' = NoChannel
    /\ UNCHANGED <<typingChannels, msgs, tracked, closing, leftBehind, composerVars>>

\* The same while everything outside ChatWindow stays as it is.
Mount(c) == MountEffect(c) /\ UNCHANGED <<appVars, seedVars, createVars, listVars>>

\* The prop changes from one conversation to another: cleanup, then the effect.
SwitchEffect(c, late) ==
    /\ conversationId \notin {NoConv, c}
    /\ BagCardinality(fetches) < MaxFetches
    /\ late => Cardinality(closing \cup leftBehind) < MaxClosing
    /\ conversationId' = c
    /\ tracked' = TrackedAfterCleanup
    /\ timers' = TimersAfterCleanup
    /\ closing' = ClosingAfterCleanup(late)
    /\ channelRef' = NoChannel
    /\ sentLog' = <<>>
    /\ Effect(c, { ch.id : ch \in ClosingAfterCleanup(late) \cup leftBehind }
                 \cup { t.chan.id : t \in TimersAfterCleanup } \cup TrackedAfterCleanup)
    /\ fetches' = fetches (+) SetToBag({ [conv |-> c, phase |-> "req", error |-> FALSE, data |-> <<>>] })
    /\ UNCHANGED <<typingChannels, msgs, leftBehind, newMessage, sending, uploading, typingTimeoutRef,
                   inflight, upload, storage, sinceKey, lastSend, alertShown>>

\* The same while everything outside ChatWindow stays as it is.
Switch(c, late) == SwitchEffect(c, late) /\ UNCHANGED <<appVars, seedVars, createVars, listVars>>

\* A freshly constructed ChatWindow's composer: the useState/useRef initial values.
ComposerInit ==
    /\ newMessage = <<>>
    /\ sending = FALSE
    /\ uploading = FALSE
    /\ typingTimeoutRef = 0
    /\ timers = {}
    /\ inflight = <<>>
    /\ upload = NoUpload
    /\ sinceKey = TYPING_TIMEOUT_MS
    /\ sentLog = <<>>
    /\ lastSend = [outcome |-> "none"]
    /\ alertShown = FALSE

\* App stops rendering ChatWindow (onBack, sign-out): cleanup; the component's
\* state is gone, so pending history responses no longer change anything, while
\* the inserts and the upload it has started go on against the store (`live`
\* FALSE: their setters change nothing any more), and the channels it removed
\* go on reporting to its callbacks.
UnmountCleanup(late) ==
    /\ conversationId # NoConv
    /\ late => Cardinality(closing \cup leftBehind) < MaxClosing
    /\ conversationId' = NoConv
    /\ tracked' = TrackedAfterCleanup
    /\ closing' = {}
    /\ leftBehind' = leftBehind \cup ClosingAfterCleanup(late)
    /\ channelRef' = NoChannel
    /\ channel' = NoChannel
    /\ subscribed' = FALSE
    /\ notifiable' = {}
    /\ fetches' = EmptyBag
    /\ messages' = <<>> /\ loading' = TRUE /\ presenceState' = {} /\ typingUsers' = <<>>
    /\ newMessage' = <<>> /\ sending' = FALSE /\ uploading' = FALSE
    /\ typingTimeoutRef' = 0 /\ timers' = TimersAfterCleanup
    /\ sinceKey' = TYPING_TIMEOUT_MS /\ sentLog' = <<>> /\ lastSend' = [outcome |-> "none"]
    /\ alertShown' = FALSE
    /\ inflight' = [i \in 1..Len(inflight) |-> [inflight[i] EXCEPT !.live = FALSE]]
    /\ upload' = IF upload = NoUpload THEN NoUpload ELSE [upload EXCEPT !.live = FALSE]
    /\ UNCHANGED <<typingChannels, msgs, storage>>

\* The same while everything outside ChatWindow stays as it is.
Unmount(late) == UnmountCleanup(late) /\ UNCHANGED <<appVars, seedVars, createVars, listVars>>

\* ------------------------------------------------------- history and stream
\* The store answers the select of fetchMessages f (or fails).
FetchServe(f, ok) ==
    /\ BagIn(f, fetches) /\ f.phase = "req"
    /\ IF ok
       THEN \E data \in HistoryOf(f.conv) :
              fetches' = (fetches (-) SetToBag({f})) (+)
                         SetToBag({ [conv |-> f.conv, phase |-> "resp", error |-> FALSE, data |-> data] })
       ELSE fetches' = (fetches (-) SetToBag({f})) (+)
                       SetToBag({ [conv |-> f.conv, phase |-> "resp", error |-> TRUE, data |-> <<>>] })
    /\ UNCHANGED <<appVars, seedVars, createVars, listVars, typingChannels, msgs, notifiable, tracked, conversationId, messages, loading,
                   presenceState, typingUsers, channel, subscribed, channelRef, closing, leftBehind,
                   composerVars>>

\* The mutant of FetchResponse that waits for the subscription: the history is
\* applied only once the channel has joined.
FetchResponseNeedsSubscribed(f) ==
    /\ BagIn(f, fetches) /\ f.phase = "resp"
    /\ messages' = IF f.error \/ ~subscribed THEN messages ELSE f.data
    /\ loading' = IF subscribed THEN FALSE ELSE loading
    /\ fetches' = fetches (-) SetToBag({f})
    /\ UNCHANGED <<appVars, seedVars, createVars, listVars, typingChannels, msgs, notifiable, tracked, conversationId,
                   presenceState, typingUsers, channel, subscribed, channelRef, closing, leftBehind,
                   composerVars>>

\* The mutant of FetchResponse in which a failed fetch blanks the list and keeps
\* the loading flag.
FetchResponseBlocksOnError(f) ==
    /\ BagIn(f, fetches) /\ f.phase = "resp"
    /\ messages' = IF f.error THEN <<>> ELSE f.data
    /\ loading' = IF f.error THEN loading ELSE FALSE
    /\ fetches' = fetches (-) SetToBag({f})
    /\ UNCHANGED <<appVars, seedVars, createVars, listVars, typingChannels, msgs, notifiable, tracked, conversationId,
                   presenceState, typingUsers, channel, subscribed, channelRef, closing, leftBehind,
                   composerVars>>

\* fetchMessages resumes after its await.
FetchResponse(f) ==
    /\ BagIn(f, fetches) /\ f.phase = "resp"
    /\ messages' = IF f.error THEN messages ELSE f.data
    /\ loading' = FALSE
    /\ fetches' = fetches (-) SetToBag({f})
    /\ UNCHANGED <<appVars, seedVars, createVars, listVars, typingChannels, msgs, notifiable, tracked, conversationId, presenceState, typingUsers,
                   channel, subscribed, channelRef, closing, leftBehind, composerVars>>

\* Another client inserts a message row.
OtherInsert(id, c, ts) ==
    /\ id \notin { m.id : m \in msgs }
    /\ msgs' = msgs \cup { Row(id, c, Peer, <<"a">>, NoAttachments, ts) }
    /\ notifiable' = IF channel # NoChannel /\ channel.conv = c
                     THEN notifiable \cup {id} ELSE notifiable
    /\ UNCHANGED <<appVars, seedVars, createVars, listVars, typingChannels, tracked, conversationId, messages, loading, presenceState, typingUsers,
                   channel, subscribed, channelRef, closing, leftBehind, fetches, composerVars>>

\* The postgres_changes handler of the open channel runs for row id
\* (the transport may deliver a row again).
Notification(id) ==
    /\ channel # NoChannel /\ subscribed
    /\ id \in notifiable
    /\ LET newMsg == CHOOSE m \in msgs : m.id = id IN
       messages' = AddMessageIfNew(messages, newMsg)
    /\ UNCHANGED <<appVars, seedVars, createVars, listVars, typingChannels, msgs, notifiable, tracked, conversationId, loading, presenceState,
                   typingUsers, channel, subscribed, channelRef, closing, leftBehind, fetches,
                   composerVars>>

\* The mutant of Others that filters nothing.
OthersKept(prev, user_id) == prev

\* The mutant of TypingIgnored that lets self-originated signals through.
TypingIgnoredNoSelfCheck(user_id) == user_id = None

\* if (!user_id || user_id === currentUserId) return
TypingIgnored(user_id) == user_id = None \/ user_id = Self

\* prev.filter((id) => id !== user_id)
RECURSIVE Others(_, _)
Others(prev, user_id) ==
    IF prev = <<>> THEN <<>>
    ELSE IF Head(prev) # user_id THEN <<Head(prev)>> \o Others(Tail(prev), user_id)
         ELSE Others(Tail(prev), user_id)

\* The user ids a typing broadcast may carry (None: a payload without user_id).
TypingSenders == {Self, Peer, None}

\* A second member of the conversation, other than Self and Peer.
SecondPeer == "C"

\* The broadcast 'typing' handler of the open channel runs.
TypingBroadcast(user_id, isTyping) ==
    /\ channel # NoChannel /\ subscribed
    /\ typingUsers' = IF TypingIgnored(user_id) THEN typingUsers
                      ELSE IF isTyping THEN Append(Others(typingUsers, user_id), user_id)
                           ELSE Others(typingUsers, user_id)
    /\ UNCHANGED <<appVars, seedVars, createVars, listVars, typingChannels, msgs, notifiable, tracked, conversationId, messages, loading,
                   presenceState, channel, subscribed, channelRef, closing, leftBehind, fetches,
                   composerVars>>

\* The presence snapshots channel.presenceState() may return, per key a list of
\* entries, over any subset of the given keys: a key that left is absent.
PresenceSnapshots(keys) == UNION { [K -> { <<>>, <<1>>, <<2, 1>> }] : K \in SUBSET keys }

\* The mutant of users that keeps the last entry of a key.
usersLastEntry(newState) ==
    { <<key, newState[key][Len(newState[key])]>> :
        key \in { k \in DOMAIN newState : Len(newState[k]) > 0 } }

\* for (const key in newState) if (presences.length > 0) users[key] = presences[0]
users(newState) ==
    { <<key, newState[key][1]>> :
        key \in { k \in DOMAIN newState : Len(newState[k]) > 0 } }

\* The presence sync handler of the open channel runs.
PresenceSync(newState) ==
    /\ channel # NoChannel /\ subscribed
    /\ presenceState' = users(newState)
    /\ UNCHANGED <<appVars, seedVars, createVars, listVars, typingChannels, msgs, notifiable, tracked, conversationId, messages, loading,
                   typingUsers, channel, subscribed, channelRef, closing, leftBehind, fetches,
                   composerVars>>

Statuses == {"SUBSCRIBED", "CHANNEL_ERROR", "TIMED_OUT", "CLOSED"}

\* The mutant of StatusCallback that calls track on every status.
StatusCallbackTracksAlways(status, trackOk) ==
    /\ channel # NoChannel
    /\ channelRef' = channel
    /\ subscribed' = (status = "SUBSCRIBED")
    /\ tracked' = IF trackOk THEN tracked \cup {channel.id} ELSE tracked
    /\ UNCHANGED <<appVars, seedVars, createVars, listVars, typingChannels, msgs, notifiable, conversationId, messages,
                   loading, presenceState, typingUsers, channel, closing, leftBehind, fetches, composerVars>>

\* The subscribe callback of the open channel runs with a status;
\* trackOk: whether channel.track succeeds.
StatusCallback(status, trackOk) ==
    /\ channel # NoChannel
    /\ channelRef' = channel
    /\ subscribed' = (status = "SUBSCRIBED")
    /\ tracked' = IF status = "SUBSCRIBED" /\ trackOk
                  THEN tracked \cup {channel.id} ELSE tracked
    /\ UNCHANGED <<appVars, seedVars, createVars, listVars, typingChannels, msgs, notifiable, conversationId, messages, loading, presenceState,
                   typingUsers, channel, closing, leftBehind, fetches, composerVars>>

\* The subscribe callback of a channel that was removed runs: the callback
\* closes over its own channel, writes it to the channelRef of its instance
\* whatever the status (the mounted ChatWindow's, when that one removed the
\* channel) and calls track on it when the status is SUBSCRIBED. CLOSED is the
\* last status a channel reports.
LateCallback(ch, status, trackOk) ==
    /\ ch \in closing \cup leftBehind
    /\ (status = "SUBSCRIBED" /\ trackOk) => Cardinality(tracked \ {channel.id, ch.id}) < MaxStale
    /\ channelRef' = IF ch \in closing THEN ch ELSE channelRef
    /\ tracked' = IF status = "SUBSCRIBED" /\ trackOk
                  THEN tracked \cup {ch.id} ELSE tracked
    /\ closing' = IF status = "CLOSED" THEN closing \ {ch} ELSE closing
    /\ leftBehind' = IF status = "CLOSED" THEN leftBehind \ {ch} ELSE leftBehind
    /\ UNCHANGED <<appVars, seedVars, createVars, listVars, typingChannels, msgs, notifiable, conversationId, messages, loading,
                   presenceState, typingUsers, channel, subscribed, fetches, composerVars>>

\* ------------------------------------------------------------------ composer
\* handleTyping: the onChange handler of the composer input.
HandleTyping(text) ==
    /\ conversationId # NoConv
    /\ newMessage' = text
    /\ sinceKey' = 0
    /\ IF channelRef = NoChannel
       THEN /\ sentLog' = <<>>
            /\ UNCHANGED <<timers, typingTimeoutRef>>
       ELSE LET cleared == ClearTimeout(timers, typingTimeoutRef)
                id      == FreshTimerId(cleared)
            IN  /\ sentLog' = << [chan |-> channelRef.id, isTyping |-> TRUE] >>
                /\ timers' = cleared \cup
                     { [id |-> id, remaining |-> TYPING_TIMEOUT_MS, chan |-> channelRef] }
                /\ typingTimeoutRef' = id
    /\ UNCHANGED <<appVars, seedVars, createVars, listVars, typingChannels, streamVars, sending, uploading, inflight, upload, storage, lastSend,
                   alertShown>>

\* handleTyping of the ChatWindow that keeps no channelRef: it asks the client
\* for the conversation's channel on every keystroke and removes none. `fresh`:
\* supabase.channel(...) builds a new channel for the topic (otherwise the client
\* hands back the channel the effect opened).
HandleTypingNoRef(text, fresh) ==
    /\ conversationId # NoConv
    /\ fresh => Cardinality(typingChannels) < MaxTypingChannels
    /\ Cardinality(ClearTimeout(timers, typingTimeoutRef)) < MaxTimers
    /\ newMessage' = text
    /\ sinceKey' = 0
    /\ LET held == {channel.id} \cup { ch.id : ch \in typingChannels \cup closing \cup leftBehind }
                      \cup { t.chan.id : t \in timers } \cup tracked
           ch == IF fresh THEN [id |-> FreshChannelId(held), conv |-> conversationId]
                 ELSE channel
           cleared == ClearTimeout(timers, typingTimeoutRef)
           id == FreshTimerId(cleared)
       IN  /\ typingChannels' = IF fresh THEN typingChannels \cup {ch} ELSE typingChannels
           /\ sentLog' = << [chan |-> ch.id, isTyping |-> TRUE] >>
           /\ timers' = cleared \cup { [id |-> id, remaining |-> TYPING_TIMEOUT_MS, chan |-> ch] }
           /\ typingTimeoutRef' = id
    /\ UNCHANGED <<appVars, seedVars, createVars, listVars, streamVars, sending, uploading, inflight, upload,
                   storage, lastSend, alertShown>>

\* Time passes.
Tick(d) ==
    /\ timers' = { [t EXCEPT !.remaining = IF t.remaining > d THEN t.remaining - d ELSE 0] : t \in timers }
    /\ sinceKey' = IF sinceKey + d < TYPING_TIMEOUT_MS THEN sinceKey + d
                   ELSE TYPING_TIMEOUT_MS
    /\ UNCHANGED <<appVars, seedVars, createVars, listVars, typingChannels, streamVars, newMessage, sending, uploading, typingTimeoutRef, inflight,
                   upload, storage, sentLog, lastSend, alertShown>>

\* The callback handleTyping passed to setTimeout runs.
TimerFire(t) ==
    /\ t \in timers /\ t.remaining = 0
    /\ timers' = timers \ {t}
    /\ sentLog' = Append(sentLog, [chan |-> t.chan.id, isTyping |-> FALSE])
    /\ UNCHANGED <<appVars, seedVars, createVars, listVars, typingChannels, streamVars, newMessage, sending, uploading, typingTimeoutRef, inflight,
                   upload, storage, sinceKey, lastSend, alertShown>>

\* The mutant of SendRejected that does not look at the content.
SendRejectedNoBlankCheck(content, atts, cl) ==
    cl.sending \/ cl.conversationId = NoConv

\* if ((!(content && content.trim()) && attachments.length === 0) || sending || !conversationId) return
SendRejected(content, atts, cl) ==
    \/ Trim(content) = <<>> /\ Len(atts) = 0
    \/ cl.sending
    \/ cl.conversationId = NoConv

\* const content = text !== undefined ? text : newMessage
ContentOf(text, cl) == IF text # Undefined THEN text ELSE cl.newMessage

\* The mutant of InsertRequest that passes the text and the list as they came.
InsertRequestRaw(content, atts, cl, fromUpload) ==
    [ conversation_id |-> cl.conversationId,
      sender_id       |-> Self,
      content         |-> content,
      attachments     |-> atts,
      fromUpload      |-> fromUpload,
      live            |-> TRUE ]

\* The object passed to insert().
InsertRequest(content, atts, cl, fromUpload) ==
    [ conversation_id |-> cl.conversationId,
      sender_id       |-> Self,
      content         |-> IF Trim(content) # <<>> THEN Trim(content) ELSE Null,
      attachments     |-> IF Len(atts) > 0 THEN atts ELSE NoAttachments,
      fromUpload      |-> fromUpload,    \* handleFileUpload awaits this call
      live            |-> TRUE ]         \* the ChatWindow of the call is mounted

\* sendMessage, run in the render closure cl up to its await; `live`: the
\* ChatWindow of that render is still mounted (otherwise setSending changes
\* nothing).
SendMessage(text, atts, cl, fromUpload, live) ==
    LET content == ContentOf(text, cl) IN
    IF SendRejected(content, atts, cl)
    THEN /\ lastSend' = [content |-> content, attachments |-> atts, outcome |-> "rejected"]
         /\ UNCHANGED <<sending, inflight>>
    ELSE /\ Cardinality(msgs) + Len(inflight) < MaxMsgs
         /\ sending' = IF live THEN TRUE ELSE sending
         /\ inflight' = Append(inflight, [InsertRequest(content, atts, cl, fromUpload)
                                            EXCEPT !.live = live])
         /\ lastSend' = [content |-> content, attachments |-> atts, outcome |-> "issued"]

\* The form is submitted: sendMessage().
FormSubmit ==
    /\ conversationId # NoConv
    /\ SendMessage(Undefined, <<>>, Closure, FALSE, TRUE)
    /\ UNCHANGED <<appVars, seedVars, createVars, listVars, typingChannels, streamVars, newMessage, uploading, typingTimeoutRef, timers, upload,
                   storage, sinceKey, sentLog, alertShown>>

RemoveAt(s, i) == SubSeq(s, 1, i - 1) \o SubSeq(s, i + 1, Len(s))

\* The mutant of SendMessageDone that appends the inserted row to the rendered list.
SendMessageDoneAppends(i, ok, id, ts) ==
    /\ i \in 1..Len(inflight)
    /\ LET req == inflight[i]
           row == Row(id, req.conversation_id, req.sender_id, req.content, req.attachments, ts)
       IN
       /\ IF ok
          THEN /\ id \notin { m.id : m \in msgs }
               /\ msgs' = msgs \cup {row}
               /\ messages' = Append(messages, row)
               /\ notifiable' = IF channel # NoChannel /\ channel.conv = req.conversation_id
                                THEN notifiable \cup {id} ELSE notifiable
               /\ newMessage' = IF req.live THEN <<>> ELSE newMessage
          ELSE /\ id = 1 /\ ts = 1
               /\ UNCHANGED <<msgs, messages, notifiable, newMessage>>
       /\ sending' = IF req.live THEN FALSE ELSE sending
       /\ inflight' = RemoveAt(inflight, i)
       /\ IF req.fromUpload
          THEN /\ uploading' = IF req.live THEN FALSE ELSE uploading
               /\ upload' = NoUpload
          ELSE UNCHANGED <<uploading, upload>>
    /\ UNCHANGED <<appVars, seedVars, createVars, listVars, typingChannels, tracked, conversationId, loading, presenceState, typingUsers,
                   channel, subscribed, channelRef, closing, leftBehind, fetches, typingTimeoutRef,
                   timers, storage, sinceKey, sentLog, lastSend, alertShown>>

\* The insert of inflight[i] resolves; sendMessage resumes after its await, and
\* after it the handleFileUpload call that awaited it. The setNewMessage,
\* setSending and setUploading of a ChatWindow that was unmounted change nothing.
SendMessageDone(i, ok, id, ts) ==
    /\ i \in 1..Len(inflight)
    /\ LET req == inflight[i] IN
       /\ IF ok
          THEN /\ id \notin { m.id : m \in msgs }
               /\ msgs' = msgs \cup { Row(id, req.conversation_id, req.sender_id,
                                          req.content, req.attachments, ts) }
               /\ notifiable' = IF channel # NoChannel /\ channel.conv = req.conversation_id
                                THEN notifiable \cup {id} ELSE notifiable
               /\ newMessage' = IF req.live THEN <<>> ELSE newMessage
          ELSE /\ id = 1 /\ ts = 1
               /\ UNCHANGED <<msgs, notifiable, newMessage>>
       /\ sending' = IF req.live THEN FALSE ELSE sending
       /\ inflight' = RemoveAt(inflight, i)
       /\ IF req.fromUpload
          THEN /\ uploading' = IF req.live THEN FALSE ELSE uploading
               /\ upload' = NoUpload
          ELSE UNCHANGED <<uploading, upload>>
    /\ UNCHANGED <<appVars, seedVars, createVars, listVars, typingChannels, tracked, conversationId, messages, loading, presenceState, typingUsers,
                   channel, subscribed, channelRef, closing, leftBehind, fetches, typingTimeoutRef,
                   timers, storage, sinceKey, sentLog, lastSend, alertShown>>

\* handleFileUpload: a file was chosen; runs up to the await of the upload. One
\* call at a time: the input is disabled while `uploading`, and the user chooses
\* no file while the upload of a ChatWindow that was unmounted still runs.
UploadStart(file) ==
    /\ conversationId # NoConv
    /\ ~uploading /\ upload = NoUpload
    /\ \A p \in storage : p.file # file
    /\ uploading' = TRUE
    /\ alertShown' = FALSE
    /\ upload' = [file |-> file, filePath |-> FilePath(conversationId, file),
                  phase |-> "uploading", closure |-> Closure, live |-> TRUE]
    /\ UNCHANGED <<appVars, seedVars, createVars, listVars, typingChannels, streamVars, newMessage, sending, typingTimeoutRef, timers, inflight,
                   storage, sinceKey, sentLog, lastSend>>

\* The mutant of UploadThrows that ignores the upload error.
UploadErrorIgnored(ok) == FALSE

\* if (uploadError) throw uploadError
UploadThrows(ok) == ~ok

\* The upload resolves; handleFileUpload resumes: on an error alert and stop,
\* otherwise sendMessage(undefined, [attachment]) in the closure of its render.
\* The setUploading of a ChatWindow that was unmounted changes nothing.
UploadDone(ok) ==
    /\ upload # NoUpload /\ upload.phase = "uploading"
    /\ storage' = IF ok THEN storage \cup {upload.filePath} ELSE storage
    /\ IF UploadThrows(ok)
       THEN /\ alertShown' = TRUE
            /\ uploading' = IF upload.live THEN FALSE ELSE uploading
            /\ upload' = NoUpload
            /\ UNCHANGED <<sending, inflight, lastSend>>
       ELSE /\ SendMessage(Undefined, <<upload.filePath>>, upload.closure, TRUE, upload.live)
            /\ IF SendRejected(ContentOf(Undefined, upload.closure), <<upload.filePath>>,
                               upload.closure)
               THEN /\ uploading' = IF upload.live THEN FALSE ELSE uploading
                    /\ upload' = NoUpload
               ELSE uploading' = uploading /\ upload' = [upload EXCEPT !.phase = "sending"]
            /\ UNCHANGED alertShown
    /\ UNCHANGED <<appVars, seedVars, createVars, listVars, typingChannels, streamVars, newMessage, typingTimeoutRef, timers, sinceKey, sentLog>>

\* ------------------------------------ the ChatWindow that keeps no channelRef
\* Its cleanup is supabase.removeChannel(channel) alone: the pending typing
\* timer is not cancelled and the channels handleTyping opened stay open. Its
\* effect resets the list and the presence map, not the typing set.
SwitchNoRef(c, late) ==
    /\ conversationId \notin {NoConv, c}
    /\ BagCardinality(fetches) < MaxFetches
    /\ late => Cardinality(closing \cup leftBehind) < MaxClosing
    /\ conversationId' = c
    /\ tracked' = tracked \ {channel.id}
    /\ closing' = ClosingAfterCleanup(late)
    /\ sentLog' = <<>>
    /\ loading' = TRUE
    /\ messages' = <<>>
    /\ presenceState' = {}
    /\ channel' = [id |-> FreshChannelId(
                            { ch.id : ch \in ClosingAfterCleanup(late) \cup leftBehind
                                               \cup typingChannels }
                            \cup { t.chan.id : t \in timers } \cup (tracked \ {channel.id})),
                   conv |-> c]
    /\ subscribed' = FALSE
    /\ notifiable' = {}
    /\ fetches' = fetches (+) SetToBag({ [conv |-> c, phase |-> "req", error |-> FALSE, data |-> <<>>] })
    /\ UNCHANGED <<appVars, seedVars, createVars, listVars, typingChannels, msgs, typingUsers,
                   channelRef, leftBehind, newMessage, sending, uploading, typingTimeoutRef,
                   timers, inflight, upload, storage, sinceKey, lastSend, alertShown>>

\* App stops rendering it: the same cleanup; the timer callbacks it has armed
\* stay pending, the inserts and the upload it has started go on.
UnmountNoRef(late) ==
    /\ conversationId # NoConv
    /\ late => Cardinality(closing \cup leftBehind) < MaxClosing
    /\ conversationId' = NoConv
    /\ tracked' = tracked \ {channel.id}
    /\ closing' = {}
    /\ leftBehind' = leftBehind \cup ClosingAfterCleanup(late)
    /\ channel' = NoChannel
    /\ subscribed' = FALSE
    /\ notifiable' = {}
    /\ fetches' = EmptyBag
    /\ messages' = <<>> /\ loading' = TRUE /\ presenceState' = {} /\ typingUsers' = <<>>
    /\ newMessage' = <<>> /\ sending' = FALSE /\ uploading' = FALSE
    /\ typingTimeoutRef' = 0
    /\ sinceKey' = TYPING_TIMEOUT_MS /\ sentLog' = <<>> /\ lastSend' = [outcome |-> "none"]
    /\ alertShown' = FALSE
    /\ inflight' = [i \in 1..Len(inflight) |-> [inflight[i] EXCEPT !.live = FALSE]]
    /\ upload' = IF upload = NoUpload THEN NoUpload ELSE [upload EXCEPT !.live = FALSE]
    /\ UNCHANGED <<appVars, seedVars, createVars, listVars, typingChannels, msgs, channelRef,
                   timers, storage>>

\* Its subscribe callback, of the open channel or of one that was removed: it
\* writes no ref and calls track when the status is SUBSCRIBED; a track that is
\* rejected is caught by nothing and changes nothing.
StatusCallbackNoRef(ch, status, trackOk) ==
    /\ ch # NoChannel
    /\ ch \in {channel} \cup closing \cup leftBehind
    /\ (ch # channel /\ status = "SUBSCRIBED" /\ trackOk) =>
          Cardinality(tracked \ {channel.id, ch.id}) < MaxStale
    /\ subscribed' = IF ch = channel THEN status = "SUBSCRIBED" ELSE subscribed
    /\ tracked' = IF status = "SUBSCRIBED" /\ trackOk THEN tracked \cup {ch.id} ELSE tracked
    /\ closing' = IF status = "CLOSED" THEN closing \ {ch} ELSE closing
    /\ leftBehind' = IF status = "CLOSED" THEN leftBehind \ {ch} ELSE leftBehind
    /\ UNCHANGED <<appVars, seedVars, createVars, listVars, typingChannels, msgs, notifiable,
                   conversationId, messages, loading, presenceState, typingUsers, channel,
                   channelRef, fetches, composerVars>>

\* Its postgres_changes handler: setMessages((prev) => [...prev, newMsg]), the
\* row appended as it comes.
NotificationNoRef(id) ==
    /\ channel # NoChannel /\ subscribed
    /\ id \in notifiable
    /\ Len(messages) < MaxRendered
    /\ messages' = Append(messages, CHOOSE m \in msgs : m.id = id)
    /\ UNCHANGED <<appVars, seedVars, createVars, listVars, typingChannels, msgs, notifiable,
                   tracked, conversationId, loading, presenceState, typingUsers, channel,
                   subscribed, channelRef, closing, leftBehind, fetches, composerVars>>

\* Its broadcast 'typing' handler: if (user_id === currentUserId) return; a
\* payload without user_id is not ignored.
TypingBroadcastNoRef(user_id, isTyping) ==
    /\ channel # NoChannel /\ subscribed
    /\ typingUsers' = IF user_id = Self THEN typingUsers
                      ELSE IF isTyping THEN Append(Others(typingUsers, user_id), user_id)
                           ELSE Others(typingUsers, user_id)
    /\ UNCHANGED <<appVars, seedVars, createVars, listVars, typingChannels, msgs, notifiable,
                   tracked, conversationId, messages, loading, presenceState, channel,
                   subscribed, channelRef, closing, leftBehind, fetches, composerVars>>

\* Its sendMessage, run in the render closure cl up to its await: the guard
\* does not look at conversationId, and the text is inserted as it was typed.
SendMessageNoRef(text, atts, cl, fromUpload, live) ==
    LET content == ContentOf(text, cl) IN
    IF (Trim(content) = <<>> /\ Len(atts) = 0) \/ cl.sending
    THEN /\ lastSend' = [content |-> content, attachments |-> atts, outcome |-> "rejected"]
         /\ UNCHANGED <<sending, inflight>>
    ELSE /\ Cardinality(msgs) + Len(inflight) < MaxMsgs
         /\ sending' = IF live THEN TRUE ELSE sending
         /\ inflight' = Append(inflight,
                           [ conversation_id |-> cl.conversationId,
                             sender_id       |-> Self,
                             content         |-> content,
                             attachments     |-> IF Len(atts) > 0 THEN atts ELSE NoAttachments,
                             fromUpload      |-> fromUpload,
                             live            |-> live ])
         /\ lastSend' = [content |-> content, attachments |-> atts, outcome |-> "issued"]

\* Its form is submitted: sendMessage().
FormSubmitNoRef ==
    /\ conversationId # NoConv
    /\ SendMessageNoRef(Undefined, <<>>, Closure, FALSE, TRUE)
    /\ UNCHANGED <<appVars, seedVars, createVars, listVars, typingChannels, streamVars, newMessage, uploading, typingTimeoutRef, timers, upload,
                   storage, sinceKey, sentLog, alertShown>>

\* Its upload resolves; handleFileUpload resumes: on an error alert and stop,
\* otherwise sendMessage(undefined, [attachment]) in the closure of its render.
UploadDoneNoRef(ok) ==
    /\ upload # NoUpload /\ upload.phase = "uploading"
    /\ storage' = IF ok THEN storage \cup {upload.filePath} ELSE storage
    /\ IF UploadThrows(ok)
       THEN /\ alertShown' = TRUE
            /\ uploading' = IF upload.live THEN FALSE ELSE uploading
            /\ upload' = NoUpload
            /\ UNCHANGED <<sending, inflight, lastSend>>
       ELSE /\ SendMessageNoRef(Undefined, <<upload.filePath>>, upload.closure, TRUE, upload.live)
            /\ IF upload.closure.sending
               THEN /\ uploading' = IF upload.live THEN FALSE ELSE uploading
                    /\ upload' = NoUpload
               ELSE uploading' = uploading /\ upload' = [upload EXCEPT !.phase = "sending"]
            /\ UNCHANGED alertShown
    /\ UNCHANGED <<appVars, seedVars, createVars, listVars, typingChannels, streamVars, newMessage, typingTimeoutRef, timers, sinceKey, sentLog>>

\* =============================================== ConversationList (one session)
\* How many conversation rows the store may hold while a list is watched.
MaxListConvs == 2
\* How many fetchConversations calls may be running at once.
MaxListFetches == 2
\* How many conversation rows the store may hold while pushes are watched.
MaxPushConvs == 1


\* The names a group conversation may carry (<<>>: null or '').
GroupNames == { <<>>, <<"g">> }

\* The e-mail of the profile (and of the auth user) with identity u; <<>> for an
\* identity without a profiles row, whose join yields null.
EmailOf(u) ==
    IF \E p \in profiles : p.id = u THEN (CHOOSE p \in profiles : p.id = u).email ELSE <<>>

\* A fetchConversations call that has just been made for identity u.
NewFetch(u) ==
    [ user |-> u, phase |-> "user",   \* where the call is suspended
      ids |-> {},                     \* conversationIds
      convData |-> <<>>,
      result |-> <<>> ]               \* enriched

\* The mutant of LinkedTo without the filter on user_id.
LinkedToAnyone(u) == { p.conversation_id : p \in conversation_participants }

\* select('conversation_id').eq('user_id', u), mapped to the ids.
LinkedTo(u) ==
    { p.conversation_id : p \in { q \in conversation_participants : q.user_id = u } }

\* The sequences without repetition over the set S.
RECURSIVE Orderings(_)
Orderings(S) ==
    IF S = {} THEN { <<>> }
    ELSE UNION { { <<x>> \o rest : rest \in Orderings(S \ {x}) } : x \in S }

\* The answers the store may give to
\* select('*').in('id', ids).order('created_at', { ascending: false }): the rows
\* descending by created_at, rows of equal created_at in any order.
ConvRowsDesc(ids) ==
    { s \in Orderings({ c \in conversations : c.id \in ids }) :
        \A i \in 1..(Len(s) - 1) : s[i].created_at >= s[i + 1].created_at }

\* select(conversation_id, user_id, profiles(email, full_name)).in('conversation_id', ids)
ParticipantsOf(ids) ==
    { [conversation_id |-> p.conversation_id, user_id |-> p.user_id,
       profiles |-> EmailOf(p.user_id)] :
        p \in { q \in conversation_participants : q.conversation_id \in ids } }

\* The mutant of EnrichOne that looks for the own participant first and labels
\* every group with its stored name.
EnrichOneOwnFirst(conv, allParticipants, user) ==
    IF conv.is_group
    THEN [ id |-> conv.id, is_group |-> TRUE, created_at |-> conv.created_at,
           other_user |-> {}, display_name |-> conv.name ]
    ELSE LET here == { p \in allParticipants : p.conversation_id = conv.id }
             own  == { p \in here : p.user_id = user }
             targetProfile == IF own # {} THEN { (CHOOSE p \in own : TRUE).profiles }
                              ELSE { p.profiles : p \in here }
         IN  [ id |-> conv.id, is_group |-> FALSE, created_at |-> conv.created_at,
               other_user |-> targetProfile,
               display_name |-> IF targetProfile # {} THEN CHOOSE e \in targetProfile : TRUE
                                ELSE <<"Unknown User">> ]

\* One element of the enrichment; other_user is {} for undefined. With the two
\* identities of the model at most one participant satisfies either find.
EnrichOne(conv, allParticipants, user) ==
    IF conv.is_group
    THEN [ id |-> conv.id, is_group |-> TRUE, created_at |-> conv.created_at,
           other_user |-> {},
           display_name |-> IF conv.name # <<>> THEN conv.name ELSE <<"Group Chat">> ]
    ELSE LET others == { p \in allParticipants :
                           p.conversation_id = conv.id /\ p.user_id # user }
             own == { p \in allParticipants :
                        p.conversation_id = conv.id /\ p.user_id = user }
             targetProfile == IF others # {} THEN { (CHOOSE p \in others : TRUE).profiles }
                              ELSE IF own # {} THEN { (CHOOSE p \in own : TRUE).profiles }
                              ELSE {}
         IN  [ id |-> conv.id, is_group |-> FALSE, created_at |-> conv.created_at,
               other_user |-> targetProfile,
               display_name |-> IF targetProfile # {} /\ (CHOOSE e \in targetProfile : TRUE) # <<>>
                                THEN CHOOSE e \in targetProfile : TRUE
                                ELSE <<"Unknown User">> ]

\* (convData || []).map(...)
Enrich(convData, allParticipants, user) ==
    [ i \in 1..Len(convData) |-> EnrichOne(convData[i], allParticipants, user) ]

\* The mutant of ListingAfter that blanks the listing when the refresh failed.
ListingBlankOnError(f, prev) ==
    IF f.phase = "failed" THEN <<>> ELSE f.result

\* The listing a finished call leaves: setConversations([]) / setConversations(enriched)
\* on the two normal exits, nothing on the way through catch.
ListingAfter(f, prev) ==
    IF f.phase = "failed" THEN prev ELSE f.result

\* The mutant of ListCleanup that leaves the channel subscribed.
ListCleanupForgotten(chans, u) == chans

\* The effect's cleanup: supabase.removeChannel(channel).
ListCleanup(chans, u) == chans \ {u}

\* The notifications still to be handled once only `chans` are subscribed.
NotesFor(chans) == { n \in listNotes : n.user \in chans }

\* ---- the effect on currentUserId
\* The effect runs for the first time, for identity u: fetchConversations() and
\* the subscription filtered on u.
ListMountEffect(u) ==
    /\ listUser = None
    /\ listUser' = u
    /\ listLoading' = TRUE
    /\ listFetches' = Append(listFetches, NewFetch(u))
    /\ listChannels' = listChannels \cup {u}
    /\ UNCHANGED <<listing, currentUserEmail, listNotes, listObs>>

\* App renders ConversationList for identity u while the rest stays as it is.
ListMount(u) == ListMountEffect(u) /\ UNCHANGED <<appVars, seedVars, createVars, chatVars>>

\* The prop currentUserId changes: cleanup, then the effect for the new identity.
ListIdentityEffect(u) ==
    /\ listUser \notin {None, u}
    /\ Len(listFetches) < MaxListFetches
    /\ listUser' = u
    /\ listLoading' = TRUE
    /\ listFetches' = Append(listFetches, NewFetch(u))
    /\ listChannels' = ListCleanup(listChannels, listUser) \cup {u}
    /\ listNotes' = NotesFor(ListCleanup(listChannels, listUser) \cup {u})
    /\ UNCHANGED <<listing, currentUserEmail, listObs>>

\* The same while everything outside ConversationList stays as it is.
ListIdentityChange(u) ==
    ListIdentityEffect(u) /\ UNCHANGED <<appVars, seedVars, createVars, chatVars>>

\* ConversationList is unmounted: cleanup; the component's state is gone, so the
\* running calls no longer change anything.
ListUnmountEffect ==
    /\ listUser # None
    /\ listUser' = None
    /\ listing' = <<>>
    /\ listLoading' = TRUE
    /\ currentUserEmail' = <<>>
    /\ listFetches' = <<>>
    /\ listChannels' = ListCleanup(listChannels, listUser)
    /\ listNotes' = NotesFor(ListCleanup(listChannels, listUser))
    /\ listObs' = [overtaken |-> 0, newest |-> <<>>]

\* App stops rendering ConversationList while the rest stays as it is.
ListUnmount == ListUnmountEffect /\ UNCHANGED <<appVars, seedVars, createVars, chatVars>>

\* ---- the store, written by other clients
\* A client inserts a conversation row.
OtherConversation(id, is_group, name, ts) ==
    /\ id \notin { c.id : c \in conversations }
    /\ conversations' = conversations \cup { ConvRow(id, is_group, name, ts) }
    /\ UNCHANGED <<appVars, seedVars, conversation_participants, modal, chatVars, listVars>>

\* A client inserts a participant link; `heard`: the insert reaches the
\* subscribed channel whose filter names u.
OtherLink(c, u, heard) ==
    /\ c \in { r.id : r \in conversations }
    /\ [conversation_id |-> c, user_id |-> u] \notin conversation_participants
    /\ conversation_participants' =
          conversation_participants \cup { [conversation_id |-> c, user_id |-> u] }
    /\ listNotes' = IF heard /\ u \in listChannels
                    THEN listNotes \cup { [user |-> u, conv |-> c] } ELSE listNotes
    /\ UNCHANGED <<appVars, seedVars, conversations, modal, chatVars, listUser, listing, listLoading,
                   currentUserEmail, listChannels, listFetches, listObs>>

\* The postgres_changes handler of a subscribed channel runs: fetchConversations().
ListNotification(n) ==
    /\ n \in listNotes
    /\ Len(listFetches) < MaxListFetches
    /\ listNotes' = listNotes \ {n}
    /\ listLoading' = TRUE
    /\ listFetches' = Append(listFetches, NewFetch(n.user))
    /\ UNCHANGED <<appVars, seedVars, createVars, chatVars, listUser, listing, currentUserEmail, listChannels,
                   listObs>>

\* ---- fetchConversations, one step per await
\* The i-th running call continues as f.
Advance(i, f) == listFetches' = [listFetches EXCEPT ![i] = f]

\* 0) supabase.auth.getUser() resolves (has: with a user that has an e-mail).
ListFetchUser(i, has) ==
    /\ i \in 1..Len(listFetches) /\ listFetches[i].phase = "user"
    /\ currentUserEmail' = IF has THEN EmailOf(listFetches[i].user) ELSE currentUserEmail
    /\ Advance(i, [listFetches[i] EXCEPT !.phase = "links"])
    /\ UNCHANGED <<appVars, seedVars, createVars, chatVars, listUser, listing, listLoading, listChannels, listNotes,
                   listObs>>

\* 1) the select of the identity's participant links resolves.
ListFetchLinks(i, ok) ==
    /\ i \in 1..Len(listFetches) /\ listFetches[i].phase = "links"
    /\ LET f == listFetches[i]
           conversationIds == LinkedTo(f.user)
       IN  Advance(i, IF ~ok THEN [f EXCEPT !.phase = "failed"]
                      ELSE IF conversationIds = {} THEN [f EXCEPT !.phase = "empty"]
                      ELSE [f EXCEPT !.phase = "convs", !.ids = conversationIds])
    /\ UNCHANGED <<appVars, seedVars, createVars, chatVars, listUser, listing, listLoading, currentUserEmail,
                   listChannels, listNotes, listObs>>

\* 2) the select of the conversation rows resolves.
ListFetchConvs(i, ok) ==
    /\ i \in 1..Len(listFetches) /\ listFetches[i].phase = "convs"
    /\ LET f == listFetches[i] IN
       IF ~ok THEN Advance(i, [f EXCEPT !.phase = "failed"])
       ELSE \E convData \in ConvRowsDesc(f.ids) :
               Advance(i, [f EXCEPT !.phase = "parts", !.convData = convData])
    /\ UNCHANGED <<appVars, seedVars, createVars, chatVars, listUser, listing, listLoading, currentUserEmail,
                   listChannels, listNotes, listObs>>

\* 3) the select of the participants with their profiles resolves; 4) enrich.
ListFetchParts(i, ok) ==
    /\ i \in 1..Len(listFetches) /\ listFetches[i].phase = "parts"
    /\ LET f == listFetches[i] IN
       Advance(i, IF ~ok THEN [f EXCEPT !.phase = "failed"]
                  ELSE [f EXCEPT !.phase = "ready",
                                 !.result = Enrich(f.convData, ParticipantsOf(f.ids), f.user)])
    /\ UNCHANGED <<appVars, seedVars, createVars, chatVars, listUser, listing, listLoading, currentUserEmail,
                   listChannels, listNotes, listObs>>

\* The call runs to its end after its last await: setConversations on the two
\* normal exits, catch otherwise, and setLoading(false).
ListFetchResume(i) ==
    /\ i \in 1..Len(listFetches)
    /\ listFetches[i].phase \in {"empty", "ready", "failed"}
    /\ listing' = ListingAfter(listFetches[i], listing)
    /\ listLoading' = FALSE
    /\ listFetches' = RemoveAt(listFetches, i)
    /\ listObs' = IF i > listObs.overtaken
                  THEN [overtaken |-> i - 1, newest |-> ListingAfter(listFetches[i], listing)]
                  ELSE [listObs EXCEPT !.overtaken = listObs.overtaken - 1]
    /\ UNCHANGED <<appVars, seedVars, createVars, chatVars, listUser, currentUserEmail, listChannels, listNotes>>

\* fetchConversations, one call at a time.
ListFetch(oks) ==
    \/ \E i \in 1..MaxListFetches : ListFetchUser(i, TRUE)
    \/ \E i \in 1..MaxListFetches, ok \in oks : ListFetchLinks(i, ok)
    \/ \E i \in 1..MaxListFetches, ok \in oks : ListFetchConvs(i, ok)
    \/ \E i \in 1..MaxListFetches, ok \in oks : ListFetchParts(i, ok)
    \/ \E i \in 1..MaxListFetches : ListFetchResume(i)

\* ConversationList of identity u right after its first render and effect: the
\* first fetchConversations call is running and the channel is subscribed.
ListInitMounted(u) ==
    /\ listUser = u
    /\ listing = <<>>
    /\ listLoading = TRUE
    /\ currentUserEmail = <<>>
    /\ listChannels = {u}
    /\ listNotes = {}
    /\ listFetches = << NewFetch(u) >>
    /\ listObs = [overtaken |-> 0, newest |-> <<>>]

\* No ConversationList is mounted.
ListInit ==
    /\ listUser = None
    /\ listing = <<>>
    /\ listLoading = TRUE
    /\ currentUserEmail = <<>>
    /\ listChannels = {}
    /\ listNotes = {}
    /\ listFetches = <<>>
    /\ listObs = [overtaken |-> 0, newest |-> <<>>]

\* ------------------------------------------------------------------- App
\* The values of `session`: null, or the session of the identity signed in.
Sessions == {None, Self}

\* The view a session selects: CHAT for a session, AUTH for null.
ViewOf(s) == IF s # None THEN "CHAT" ELSE "AUTH"

\* The render that follows App's state change: ChatWindow, which App shows in
\* the CHAT view while a conversation is active, is mounted, given another
\* conversationId, unmounted, or left as it is.
Render(view, active) ==
    LET now == IF view = "CHAT" THEN active ELSE NoConv IN
    IF now = conversationId THEN UNCHANGED chatVars
    ELSE IF conversationId = NoConv THEN MountEffect(now)
    ELSE IF now = NoConv THEN UnmountCleanup(FALSE)
    ELSE SwitchEffect(now, FALSE)

\* The same render for ConversationList, which App shows in the CHAT view with
\* currentUserId = session.user.id: mounted on entering the view, unmounted on
\* leaving it.
RenderList(view, s) ==
    LET now == IF view = "CHAT" THEN s ELSE None IN
    IF now = listUser THEN UNCHANGED listVars
    ELSE IF listUser = None THEN ListMountEffect(now)
    ELSE IF now = None THEN ListUnmountEffect
    ELSE ListIdentityEffect(now)

\* The same render for NewChatModal, which App shows in the CHAT view while
\* showNewChatModal: on entering the view with the flag set a new dialog is
\* mounted; on leaving it the dialog is unmounted and a call that runs in it
\* goes on as the session's orphaned call (one orphaned call is followed).
RenderModal(view, show) ==
    LET now == view = "CHAT" /\ show
        was == modal[Self].pc # "closed"
    IN  IF now = was THEN UNCHANGED modal
        ELSE IF now THEN modal' = [modal EXCEPT ![Self] = ModalInit]
        ELSE /\ modal[Self].pc # "idle" => modal[Orphan(Self)].pc = "closed"
             /\ modal' = [modal EXCEPT ![Self] = NoDialog,
                                       ![Orphan(Self)] = IF modal[Self].pc = "idle" THEN @
                                                         ELSE Detach(modal[Self])]

\* The getSession() promise of App's effect resolves with session s.
GetSessionResolved(s) ==
    /\ sessionCheck
    /\ sessionCheck' = FALSE
    /\ session' = s
    /\ viewState' = ViewOf(s)
    /\ UNCHANGED <<activeConversationId, showNewChatModal>>
    /\ Render(ViewOf(s), activeConversationId)
    /\ RenderList(ViewOf(s), s)
    /\ RenderModal(ViewOf(s), showNewChatModal)
    /\ UNCHANGED <<conversations, conversation_participants, seedVars>>

\* The onAuthStateChange callback of App's effect is called with session s.
AuthStateChange(s) ==
    /\ session' = s
    /\ viewState' = ViewOf(s)
    /\ activeConversationId' = IF s = None THEN NoConv ELSE activeConversationId
    /\ UNCHANGED <<showNewChatModal, sessionCheck>>
    /\ Render(ViewOf(s), IF s = None THEN NoConv ELSE activeConversationId)
    /\ RenderList(ViewOf(s), s)
    /\ RenderModal(ViewOf(s), showNewChatModal)
    /\ UNCHANGED <<conversations, conversation_participants, seedVars>>

\* setActiveConversationId(c) from the CHAT view: the list's onSelectConversation
\* or ChatWindow's onBack (c = NoConv).
SetActiveConversationId(c) ==
    /\ viewState = "CHAT"
    /\ c # activeConversationId
    /\ activeConversationId' = c
    /\ UNCHANGED <<viewState, session, showNewChatModal, sessionCheck>>
    /\ Render(viewState, c)
    /\ UNCHANGED <<createVars, listVars, seedVars>>

\* The dialog's onCreated(id) and onClose() in App, and the render that follows.
OnCreated(id) ==
    /\ activeConversationId' = id
    /\ showNewChatModal' = FALSE
    /\ UNCHANGED <<viewState, session, sessionCheck>>
    /\ Render(viewState, id)

\* App after its first render and effect: getSession() is pending.
InitApp ==
    /\ viewState = "LOADING"
    /\ session = None
    /\ activeConversationId = NoConv
    /\ showNewChatModal = FALSE
    /\ sessionCheck = TRUE

\* App signed in as Self, in the CHAT view, right after onNewChat.
InitAppDialog ==
    /\ viewState = "CHAT"
    /\ session = Self
    /\ activeConversationId = NoConv
    /\ showNewChatModal = TRUE
    /\ sessionCheck = FALSE

\* ------------------------------------------------------- createChat's steps
\* The mutant of Fail that also closes the dialog.
FailAndClose(k, msg) ==
    /\ modal' = [modal EXCEPT ![k].pc = "closed", ![k].loading = FALSE, ![k].error = msg,
                              ![k].closed = TRUE]
    /\ UNCHANGED <<appVars, chatVars>>

\* setError(err.message) in catch, setLoading(false) in finally: they change
\* the dialog the call was started from while it is on screen; of an orphaned
\* call nothing remains.
Fail(k, msg) ==
    /\ modal' = [modal EXCEPT ![k] =
                   IF k \in Users
                   THEN [@ EXCEPT !.pc = "idle", !.loading = FALSE, !.error = msg]
                   ELSE NoDialog]
    /\ UNCHANGED <<appVars, chatVars>>

\* The call goes on to its next request, at position pc.
Proceed(k, pc) ==
    /\ modal' = [modal EXCEPT ![k].pc = pc]
    /\ UNCHANGED <<appVars, chatVars>>

\* onCreated(id); onClose(); return -- then finally setLoading(false). The
\* session's App hides its dialog: the one the call was started from or, for an
\* orphaned call, the one opened since, whose call (if one runs) is orphaned in
\* its turn. In the App of Self the two callbacks also make id the active
\* conversation; the rest of the other session's App is not part of the model.
Succeed(k, id) ==
    /\ LET u == CurrentUserId(k) IN
       modal' = IF k = u
                THEN [modal EXCEPT ![u].pc = "closed", ![u].loading = FALSE,
                                   ![u].created = id, ![u].closed = TRUE]
                ELSE [modal EXCEPT ![u] = [NoDialog EXCEPT !.created = id, !.closed = TRUE],
                                   ![k] = IF modal[u].pc \in {"idle", "closed"}
                                          THEN NoDialog
                                          ELSE Detach(modal[u])]
    /\ IF CurrentUserId(k) = Self THEN OnCreated(id) ELSE UNCHANGED <<appVars, chatVars>>

\* The form is submitted: a new createChat call, with locals of its own, runs
\* up to its first await.
CreateChatSubmit(u, raw) ==
    /\ modal[u].pc = "idle"
    /\ ~modal[u].loading
    /\ LET targetEmail == normalizeEmail(raw) IN
       IF targetEmail = <<>>
       THEN modal' = [modal EXCEPT ![u] = [ModalInit EXCEPT !.error = ErrInvalidEmail]]
       ELSE modal' = [modal EXCEPT ![u] = [ModalInit EXCEPT !.pc = "lookup",
                                                            !.loading = TRUE,
                                                            !.target = targetEmail]]
    /\ UNCHANGED <<appVars, seedVars, conversations, conversation_participants, chatVars, listVars>>

\* The mutant of CreateChatLookup without the comparison of profile.id and
\* currentUserId.
CreateChatLookupNoSelfCheck(k, r) ==
    /\ modal[k].pc = "lookup"
    /\ LET found == { p \in profiles : p.email = modal[k].target } IN
       IF r.failed THEN Fail(k, ErrorText(r, ErrLookup))
       ELSE IF found = {} THEN Fail(k, ErrNotFound)
       ELSE LET profile == CHOOSE p \in found : TRUE IN
            /\ modal' = [modal EXCEPT ![k].pc = "search", ![k].profile = profile.id]
            /\ UNCHANGED <<appVars, chatVars>>
    /\ UNCHANGED <<seedVars, conversations, conversation_participants, listVars>>

\* 1) the profiles lookup resolves with answer r.
CreateChatLookup(k, r) ==
    /\ modal[k].pc = "lookup"
    /\ LET found == { p \in profiles : p.email = modal[k].target } IN
       IF r.failed THEN Fail(k, ErrorText(r, ErrLookup))
       ELSE IF found = {} THEN Fail(k, ErrNotFound)
       ELSE LET profile == CHOOSE p \in found : TRUE IN
            IF profile.id = CurrentUserId(k) THEN Fail(k, ErrSelf)
            ELSE /\ modal' = [modal EXCEPT ![k].pc = "search", ![k].profile = profile.id]
                 /\ UNCHANGED <<appVars, chatVars>>
    /\ UNCHANGED <<seedVars, conversations, conversation_participants, listVars>>

\* 2) the existing-conversation search resolves with answer r.
CreateChatSearch(k, r) ==
    /\ modal[k].pc = "search"
    /\ IF r.failed THEN Fail(k, ErrorText(r, ErrCheck))
       ELSE LET cands == CountsEqual2(CurrentUserId(k), modal[k].profile) IN
            IF cands # {}
            THEN \E existingConvId \in cands : Succeed(k, existingConvId)
            ELSE Proceed(k, "insertConv")
    /\ UNCHANGED <<seedVars, conversations, conversation_participants, listVars>>

\* 3) the insert of the conversation row resolves with answer r; an answer
\* that carries neither an error nor the row is that of an insert that stored
\* no row.
CreateChatInsertConv(k, r) ==
    /\ modal[k].pc = "insertConv"
    /\ IF r.failed
       THEN /\ Fail(k, ErrorText(r, ErrCreate))
            /\ UNCHANGED conversations
       ELSE IF ~r.data
       THEN /\ Fail(k, ErrNoId)
            /\ UNCHANGED conversations
       ELSE /\ \E id \in ConvIds :
                 /\ id \notin { c.id : c \in conversations }
                 /\ \A j \in ConvIds : j < id => j \in { c.id : c \in conversations }
                 /\ conversations' = conversations \cup { ConvRow(id, FALSE, <<>>, id) }
                 /\ modal' = [modal EXCEPT ![k].pc = "insertParts", ![k].conv = id]
                 /\ UNCHANGED <<appVars, chatVars>>
    /\ UNCHANGED <<seedVars, conversation_participants, listVars>>

\* 4) the insert of the two participant links resolves with answer r; the
\* inserted rows reach the subscribed list channels whose filter names their
\* user_id.
CreateChatInsertParts(k, r) ==
    /\ modal[k].pc = "insertParts"
    /\ IF ~r.failed
       THEN /\ conversation_participants' = conversation_participants \cup
                  { [conversation_id |-> modal[k].conv, user_id |-> CurrentUserId(k)],
                    [conversation_id |-> modal[k].conv, user_id |-> modal[k].profile] }
            /\ listNotes' = listNotes \cup
                  { [user |-> u, conv |-> modal[k].conv] :
                      u \in {CurrentUserId(k), modal[k].profile} \cap listChannels }
            /\ Succeed(k, modal[k].conv)
       ELSE /\ UNCHANGED <<conversation_participants, listNotes>>
            /\ modal' = [modal EXCEPT ![k].pc = "research", ![k].partInsertError = r]
            /\ UNCHANGED <<appVars, chatVars>>
    /\ UNCHANGED <<seedVars, conversations, listUser, listing, listLoading, currentUserEmail,
                   listChannels, listFetches, listObs>>

\* The mutant of CreateChatResearch that keeps the id of the row it inserted.
CreateChatResearchKeepsNew(k, r) ==
    /\ modal[k].pc = "research"
    /\ IF r.failed THEN Fail(k, ErrorText(r, ErrVerify))
       ELSE LET cands == CountsEqual2(CurrentUserId(k), modal[k].profile) IN
            IF cands # {}
            THEN Succeed(k, modal[k].conv)
            ELSE Fail(k, ErrorText(modal[k].partInsertError, ErrAddParts))
    /\ UNCHANGED <<seedVars, conversations, conversation_participants, listVars>>

\* The search run again after a failed participant insert resolves with answer r.
CreateChatResearch(k, r) ==
    /\ modal[k].pc = "research"
    /\ IF r.failed THEN Fail(k, ErrorText(r, ErrVerify))
       ELSE LET cands == CountsEqual2(CurrentUserId(k), modal[k].profile) IN
            IF cands # {}
            THEN \E foundConv2 \in cands : Succeed(k, foundConv2)
            ELSE Fail(k, ErrorText(modal[k].partInsertError, ErrAddParts))
    /\ UNCHANGED <<seedVars, conversations, conversation_participants, listVars>>

\* ------------------------- the NewChatModal that runs no search (createChat)
\* Its form is submitted: setLoading(true), setError(''), and the profiles
\* lookup is issued for the address as it was typed.
CreateChatFirstSubmit(u, raw) ==
    /\ modal[u].pc = "idle"
    /\ ~modal[u].loading
    /\ modal' = [modal EXCEPT ![u] = [ModalInit EXCEPT !.pc = "firstLookup",
                                                         !.loading = TRUE,
                                                         !.target = raw]]
    /\ UNCHANGED <<appVars, seedVars, conversations, conversation_participants, chatVars, listVars>>

\* Its profiles lookup resolves with answer r: an error and no row are the same
\* to it; with a profile of another identity it inserts the conversation next.
CreateChatFirstLookup(k, r) ==
    /\ modal[k].pc = "firstLookup"
    /\ LET found == { p \in profiles : p.email = modal[k].target } IN
       IF r.failed \/ found = {}
       THEN Fail(k, "User not found. Ensure they have signed up and have a profile.")
       ELSE LET row == CHOOSE p \in found : TRUE IN
            IF row.id = CurrentUserId(k) THEN Fail(k, "You can't chat with yourself.")
            ELSE /\ modal' = [modal EXCEPT ![k].pc = "firstInsertConv", ![k].profile = row.id]
                 /\ UNCHANGED <<appVars, chatVars>>
    /\ UNCHANGED <<seedVars, conversations, conversation_participants, listVars>>

\* Its insert of the conversation row resolves with answer r: throw convError,
\* whose message is shown as it is; reading conv.id of an answer without a row
\* throws a TypeError.
CreateChatFirstInsertConv(k, r) ==
    /\ modal[k].pc = "firstInsertConv"
    /\ IF r.failed
       THEN /\ Fail(k, r.message)
            /\ UNCHANGED conversations
       ELSE IF ~r.data
       THEN /\ Fail(k, "Cannot read properties of null (reading 'id')")
            /\ UNCHANGED conversations
       ELSE /\ \E id \in ConvIds :
                 /\ id \notin { c.id : c \in conversations }
                 /\ \A j \in ConvIds : j < id => j \in { c.id : c \in conversations }
                 /\ conversations' = conversations \cup { ConvRow(id, FALSE, <<>>, id) }
                 /\ modal' = [modal EXCEPT ![k].pc = "firstInsertParts", ![k].conv = id]
                 /\ UNCHANGED <<appVars, chatVars>>
    /\ UNCHANGED <<seedVars, conversation_participants, listVars>>

\* Its insert of the two participant links resolves with answer r: onCreated
\* and onClose, or throw partError, which ends the call.
CreateChatFirstInsertParts(k, r) ==
    /\ modal[k].pc = "firstInsertParts"
    /\ IF ~r.failed
       THEN /\ conversation_participants' = conversation_participants \cup
                  { [conversation_id |-> modal[k].conv, user_id |-> CurrentUserId(k)],
                    [conversation_id |-> modal[k].conv, user_id |-> modal[k].profile] }
            /\ listNotes' = listNotes \cup
                  { [user |-> u, conv |-> modal[k].conv] :
                      u \in {CurrentUserId(k), modal[k].profile} \cap listChannels }
            /\ Succeed(k, modal[k].conv)
       ELSE /\ UNCHANGED <<conversation_participants, listNotes>>
            /\ Fail(k, r.message)
    /\ UNCHANGED <<seedVars, conversations, listUser, listing, listLoading, currentUserEmail,
                   listChannels, listFetches, listObs>>

\* The dialog's X button: onClose alone. App stops rendering the dialog of
\* session u; a call that runs in it goes on as the session's orphaned call.
ModalClose(u) ==
    /\ modal[u].pc # "closed"
    /\ modal[u].pc # "idle" => modal[Orphan(u)].pc = "closed"
    /\ modal' = [modal EXCEPT ![u] = NoDialog,
                              ![Orphan(u)] = IF modal[u].pc = "idle" THEN @
                                             ELSE Detach(modal[u])]
    /\ IF u = Self
       THEN /\ showNewChatModal' = FALSE
            /\ UNCHANGED <<viewState, session, activeConversationId, sessionCheck>>
       ELSE UNCHANGED appVars
    /\ UNCHANGED <<seedVars, conversations, conversation_participants, chatVars, listVars>>

\* onNewChat while the session shows no dialog: App mounts a new NewChatModal.
ModalReopen(u) ==
    /\ modal[u].pc = "closed"
    /\ modal' = [modal EXCEPT ![u] = ModalInit]
    /\ IF u = Self
       THEN /\ viewState = "CHAT"
            /\ showNewChatModal' = TRUE
            /\ UNCHANGED <<viewState, session, activeConversationId, sessionCheck>>
       ELSE UNCHANGED appVars
    /\ UNCHANGED <<seedVars, conversations, conversation_participants, chatVars, listVars>>

\* The answers to the requests of the calls of the callers in D.
CallSteps(D) ==
    \/ \E k \in D, r \in Answers : CreateChatLookup(k, r)
    \/ \E k \in D, r \in Answers : CreateChatSearch(k, r)
    \/ \E k \in D, r \in Answers \cup {NoData} : CreateChatInsertConv(k, r)
    \/ \E k \in D, r \in { Answered, Failed(""), Failed("duplicate key") } :
          CreateChatInsertParts(k, r)
    \/ \E k \in D, r \in Answers : CreateChatResearch(k, r)

\* The dialogs of both sessions, closed by the users only while no call runs in
\* them, beside the ConversationList of Self: a notification is handled while no
\* refresh is running, and the store answers the list's requests.
NextCreatePair ==
    \/ \E u \in Users, raw \in RawEmails : CreateChatSubmit(u, raw)
    \/ CallSteps(Users)
    \/ \E u \in Users : modal[u].pc = "idle" /\ ModalClose(u)
    \/ \E u \in Users : ModalReopen(u)
    \/ ListFetch({TRUE})
    \/ \E n \in listNotes : listFetches = <<>> /\ ListNotification(n)

\* The dialogs of one session, closed and opened at any moment, beside its
\* ConversationList.
NextCreateClose ==
    \/ \E raw \in RawEmails : CreateChatSubmit(Self, raw)
    \/ CallSteps({Self, Orphan(Self)})
    \/ ModalClose(Self)
    \/ ModalReopen(Self)
    \/ ListFetch({TRUE})
    \/ \E n \in listNotes : listFetches = <<>> /\ ListNotification(n)


\* ------------------------------------------------------------------ seed
\* How many message rows the store may hold while the seed script runs.
MaxSeedMsgs == 4

\* No seed process has exited yet.
NoExit == 2

\* No seed process is running; `exit` is the exit code of the last one and
\* `seeded` tells that some run has ended with exit code 0.
SeedIdle(code, seeded) ==
    [ pc |-> "idle",
      who |-> None,         \* whose createOrGetUser call is running
      listings |-> 0,       \* how many findUserIdByListing calls it may still make
      aliceId |-> None, bobId |-> None, conversationId |-> NoConv,
      toInsert |-> <<>>, exit |-> code, seeded |-> seeded ]

\* process.exit(1): the run ends without success.
SeedExit1 == SeedIdle(1, seedRun.seeded)

\* The links seed() decides to insert, given the user_ids its select returned.
ToInsert(presentIds, c, a, b) ==
    (IF a \notin presentIds THEN << [conversation_id |-> c, user_id |-> a] >> ELSE <<>>)
    \o (IF b \notin presentIds THEN << [conversation_id |-> c, user_id |-> b] >> ELSE <<>>)

\* createOrGetUser returns id (None: null). After alice's call seed() calls it
\* for bob; after bob's it aborts unless both ids are there.
SeedGot(id) ==
    IF seedRun.who = "alice"
    THEN [seedRun EXCEPT !.aliceId = id, !.pc = "createUser", !.who = "bob", !.listings = 0]
    ELSE IF seedRun.aliceId = None \/ id = None
    THEN SeedExit1
    ELSE [seedRun EXCEPT !.bobId = id, !.pc = "conv", !.who = None, !.listings = 0]

\* seed() starts: createOrGetUser for alice runs up to its createUser await.
SeedStart ==
    /\ seedRun.pc = "idle"
    /\ seedRun' = [seedRun EXCEPT !.pc = "createUser", !.who = "alice", !.exit = NoExit]
    /\ UNCHANGED <<createVars, chatVars, listVars, appVars>>

\* admin.createUser resolves with a user that has an id, with the error
\* email_exists (or status 422), with another error, with a rejected promise,
\* or with neither id nor error: with an id the call returns it; after email_exists
\* the listing is tried and, as resp.error is set, tried again when it found
\* nothing; after another error or a throw it is tried once; otherwise null.
SeedCreateUser(answer) ==
    /\ seedRun.pc = "createUser"
    /\ seedRun' = CASE answer = "id" -> SeedGot(IF seedRun.who = "alice" THEN Self ELSE Peer)
                    [] answer = "email_exists" ->
                          [seedRun EXCEPT !.pc = "listUsers", !.listings = 2]
                    [] answer \in {"error", "throws"} ->
                          [seedRun EXCEPT !.pc = "listUsers", !.listings = 1]
                    [] OTHER -> SeedGot(None)
    /\ UNCHANGED <<createVars, chatVars, listVars, appVars>>

\* findUserIdByListing resolves: with the id of the user listed under the
\* e-mail, or with null (not listed, listUsers missing or failing).
SeedListUsers(found) ==
    /\ seedRun.pc = "listUsers"
    /\ seedRun' = IF found THEN SeedGot(IF seedRun.who = "alice" THEN Self ELSE Peer)
                  ELSE IF seedRun.listings > 1
                  THEN [seedRun EXCEPT !.listings = seedRun.listings - 1]
                  ELSE SeedGot(None)
    /\ UNCHANGED <<createVars, chatVars, listVars, appVars>>

\* The select of one conversation row resolves: with any row of the table (the
\* query names no order), or with no data when the table is empty or the select
\* failed, which is not looked at.
SeedSelectConversation(ok) ==
    /\ seedRun.pc = "conv"
    /\ IF ok /\ conversations # {}
       THEN \E existing \in conversations :
               seedRun' = [seedRun EXCEPT !.pc = "parts", !.conversationId = existing.id]
       ELSE seedRun' = [seedRun EXCEPT !.pc = "insertConv"]
    /\ UNCHANGED <<createVars, chatVars, listVars, appVars>>

\* The insert of a new conversation row resolves.
SeedInsertConversation(ok) ==
    /\ seedRun.pc = "insertConv"
    /\ IF ~ok
       THEN /\ seedRun' = SeedExit1
            /\ UNCHANGED conversations
       ELSE \E id \in ConvIds :
               /\ id \notin { c.id : c \in conversations }
               /\ \A j \in ConvIds : j < id => j \in { c.id : c \in conversations }
               /\ conversations' = conversations \cup { ConvRow(id, FALSE, <<>>, id) }
               /\ seedRun' = [seedRun EXCEPT !.pc = "parts", !.conversationId = id]
    /\ UNCHANGED <<conversation_participants, modal, chatVars, listVars, appVars>>

\* The user_ids the participants select returns for conversation c; none when
\* the select failed.
PresentIds(ok, c) ==
    IF ok THEN { l.user_id : l \in { x \in conversation_participants : x.conversation_id = c } }
    ELSE {}

\* The select of the conversation's participants resolves.
SeedSelectParticipants(ok) ==
    /\ seedRun.pc = "parts"
    /\ LET toInsert == ToInsert(PresentIds(ok, seedRun.conversationId),
                                seedRun.conversationId, seedRun.aliceId, seedRun.bobId) IN
       seedRun' = [seedRun EXCEPT !.toInsert = toInsert,
                                  !.pc = IF Len(toInsert) > 0 THEN "insertParts" ELSE "msgs"]
    /\ UNCHANGED <<createVars, chatVars, listVars, appVars>>

\* The insert of the missing links resolves; the table's key on
\* (conversation_id, user_id) rejects an insert that holds a link already there.
\* The inserted rows reach the subscribed list channels whose filter names their
\* user_id.
SeedInsertParticipants(ok) ==
    /\ seedRun.pc = "insertParts"
    /\ LET links == { seedRun.toInsert[i] : i \in 1..Len(seedRun.toInsert) } IN
       IF ok /\ links \cap conversation_participants = {}
       THEN /\ conversation_participants' = conversation_participants \cup links
            /\ listNotes' = listNotes \cup
                  { [user |-> l.user_id, conv |-> l.conversation_id] :
                      l \in { x \in links : x.user_id \in listChannels } }
            /\ seedRun' = [seedRun EXCEPT !.pc = "msgs", !.toInsert = <<>>]
       ELSE /\ seedRun' = SeedExit1
            /\ UNCHANGED <<conversation_participants, listNotes>>
    /\ UNCHANGED <<conversations, modal, chatVars, appVars, listUser, listing, listLoading,
                   currentUserEmail, listChannels, listFetches, listObs>>

\* The select of one message of the conversation resolves; with a row the
\* messages are skipped and the run ends with exit code 0.
SeedSelectMessages(ok) ==
    /\ seedRun.pc = "msgs"
    /\ seedRun' = IF ok /\ \E m \in msgs : m.conversation_id = seedRun.conversationId
                  THEN SeedIdle(0, TRUE)
                  ELSE [seedRun EXCEPT !.pc = "insertMsgs"]
    /\ UNCHANGED <<createVars, chatVars, listVars, appVars>>

\* The insert of the two seeded messages resolves and the run ends; an open
\* channel of that conversation is notified of both rows.
SeedInsertMessages(ok) ==
    /\ seedRun.pc = "insertMsgs"
    /\ ok => Cardinality(msgs) + 2 <= MaxSeedMsgs
    /\ IF ok
       THEN LET id == Cardinality(msgs) + 1 IN
            /\ msgs' = msgs \cup
                 { Row(id, seedRun.conversationId, seedRun.aliceId,
                       <<"S", "e", "e", "d", ":", " ", "H", "i", " ", "B", "o", "b", "!">>,
                       NoAttachments, id),
                   Row(id + 1, seedRun.conversationId, seedRun.bobId,
                       <<"S", "e", "e", "d", ":", " ", "H", "i", " ", "A", "l", "i", "c", "e", "!">>,
                       NoAttachments, id + 1) }
            /\ notifiable' = IF channel # NoChannel /\ channel.conv = seedRun.conversationId
                             THEN notifiable \cup {id, id + 1} ELSE notifiable
            /\ seedRun' = SeedIdle(0, TRUE)
       ELSE /\ seedRun' = SeedExit1
            /\ UNCHANGED <<msgs, notifiable>>
    /\ UNCHANGED <<createVars, listVars, appVars, typingChannels, composerVars,
                   tracked, conversationId, messages, loading, presenceState,
                   typingUsers, channel, subscribed, channelRef, closing, leftBehind, fetches>>

\* Before the seed script has run.
InitSeed == seedRun = SeedIdle(NoExit, FALSE)

\* ------------------------------------------------------------ specifications
InitChat ==
    /\ msgs = {}
    /\ notifiable = {}
    /\ tracked = {}
    /\ conversationId = NoConv
    /\ messages = <<>>
    /\ loading = TRUE
    /\ presenceState = {}
    /\ typingUsers = <<>>
    /\ channel = NoChannel
    /\ subscribed = FALSE
    /\ channelRef = NoChannel
    /\ closing = {}
    /\ leftBehind = {}
    /\ fetches = EmptyBag
    /\ storage = {}
    /\ typingChannels = {}
    /\ ComposerInit

Init ==
    /\ conversations = {}
    /\ conversation_participants = {}
    /\ modal = [k \in Callers |-> NoDialog]
    /\ InitChat /\ ListInit /\ InitApp /\ InitSeed

\* The same with App signed in, its ConversationList mounted, and the dialog of
\* each session open.
InitDialogs ==
    /\ conversations = {}
    /\ conversation_participants = {}
    /\ modal = [k \in Callers |-> IF k \in Users THEN ModalInit ELSE NoDialog]
    /\ InitChat /\ ListInitMounted(Self) /\ InitAppDialog /\ InitSeed

\* The two sessions' dialogs against the shared store.
SpecCreate == InitDialogs /\ [][NextCreatePair]_vars

\* The dialogs of one session against the store.
SpecCreateClose == InitDialogs /\ [][NextCreateClose]_vars

\* The two sessions' dialogs used one after the other: a form is submitted only
\* while no other createChat call is running.
DialogsInTurn ==
    \/ \E u \in Users, raw \in RawEmails :
          /\ \A j \in Callers \ {u} : modal[j].pc \in {"idle", "closed"}
          /\ CreateChatSubmit(u, raw)
    \/ CallSteps(Callers)
    \/ \E u \in Users : ModalClose(u)
    \/ \E u \in Users : ModalReopen(u)

\* The same beside the ConversationList of Self.
NextCreateSeq ==
    \/ DialogsInTurn
    \/ ListFetch({TRUE})
    \/ \E n \in listNotes : listFetches = <<>> /\ ListNotification(n)

SpecCreateSeq == InitDialogs /\ [][NextCreateSeq]_vars

\* The dialogs of the NewChatModal that runs no search, used one after the
\* other; the subscribed list channel hears every link, and the list's requests
\* stay unanswered meanwhile.
NextCreateFirst ==
    \/ \E u \in Users, raw \in RawEmails :
          /\ \A j \in Callers \ {u} : modal[j].pc \in {"idle", "closed"}
          /\ CreateChatFirstSubmit(u, raw)
    \/ \E k \in Callers, r \in Answers : CreateChatFirstLookup(k, r)
    \/ \E k \in Callers, r \in Answers \cup {NoData} : CreateChatFirstInsertConv(k, r)
    \/ \E k \in Callers, r \in { Answered, Failed(""), Failed("duplicate key") } :
          CreateChatFirstInsertParts(k, r)
    \/ \E u \in Users : ModalClose(u)
    \/ \E u \in Users : ModalReopen(u)

SpecCreateFirst == InitDialogs /\ [][NextCreateFirst]_vars

\* The dialogs used one after the other against a store in which another client
\* has created a group conversation and links members to it; the subscribed list
\* channel hears every link, and the list's requests stay unanswered meanwhile.
NextCreateGroups ==
    \/ DialogsInTurn
    \/ \E name \in GroupNames :
          conversations = {} /\ OtherConversation(1, TRUE, name, 1)
    \/ \E u \in Users \cup {SecondPeer} :
          /\ \E r \in conversations : r.id = 1 /\ r.is_group
          /\ OtherLink(1, u, TRUE)

SpecCreateGroups == InitDialogs /\ [][NextCreateGroups]_vars

\* Each specification below is the whole component against a part of its
\* environment; the steps left out are events that environment never sends.

\* The message stream: other clients write rows while the user only reads; the
\* store hands out its ids in order, the channel joins, and a removed channel
\* reports nothing further.
NextStream ==
    \/ \E c \in ChatConvs : Mount(c)
    \/ \E c \in ChatConvs, late \in {FALSE} : Switch(c, late)
    \/ \E late \in {FALSE} : Unmount(late)
    \/ \E f \in BagToSet(fetches), ok \in BOOLEAN : FetchServe(f, ok)
    \/ \E f \in BagToSet(fetches) : FetchResponse(f)
    \/ StatusCallback("SUBSCRIBED", TRUE)
    \/ \E id \in MsgIds, c \in ChatConvs, ts \in 1..MaxTs :
          id = Cardinality(msgs) + 1 /\ OtherInsert(id, c, ts)
    \/ \E id \in MsgIds : Notification(id)

SpecStream == Init /\ [][NextStream]_vars

\* App and what it renders: the session check resolves, auth events arrive, the
\* user picks conversations and opens and closes the New Chat dialog, in any
\* order; the channel joins.
NextApp ==
    \/ \E s \in Sessions : GetSessionResolved(s)
    \/ \E s \in Sessions : AuthStateChange(s)
    \/ \E c \in ChatConvs \cup {NoConv} : SetActiveConversationId(c)
    \/ ModalReopen(Self)
    \/ ModalClose(Self)
    \/ \E f \in BagToSet(fetches), ok \in BOOLEAN : FetchServe(f, ok)
    \/ \E f \in BagToSet(fetches) : FetchResponse(f)
    \/ StatusCallback("SUBSCRIBED", TRUE)

SpecApp == Init /\ [][NextApp]_vars

\* The seed script, run again and again against a store nobody else writes,
\* while a client signed in as alice shows its list and opens a conversation.
NextSeed ==
    \/ SeedStart
    \/ \E answer \in {"id", "email_exists", "error", "throws", "none"} :
          SeedCreateUser(answer)
    \/ \E found \in BOOLEAN : SeedListUsers(found)
    \/ \E ok \in BOOLEAN : SeedSelectConversation(ok)
    \/ \E ok \in BOOLEAN : SeedInsertConversation(ok)
    \/ \E ok \in BOOLEAN : SeedSelectParticipants(ok)
    \/ \E ok \in BOOLEAN : SeedInsertParticipants(ok)
    \/ \E ok \in BOOLEAN : SeedSelectMessages(ok)
    \/ \E ok \in BOOLEAN : SeedInsertMessages(ok)
    \/ ListMount(Self)
    \/ \E c \in ChatConvs : Mount(c)

SpecSeed == Init /\ [][NextSeed]_vars

\* Typing signals and presence: the peers signal, nobody writes a row.
NextSignals ==
    \/ \E c \in ChatConvs : Mount(c)
    \/ \E c \in ChatConvs, late \in BOOLEAN : Switch(c, late)
    \/ \E late \in BOOLEAN : Unmount(late)
    \/ \E f \in BagToSet(fetches), ok \in BOOLEAN : FetchServe(f, ok)
    \/ \E f \in BagToSet(fetches) : FetchResponse(f)
    \/ \E status \in Statuses, trackOk \in BOOLEAN : StatusCallback(status, trackOk)
    \/ \E ch \in closing \cup leftBehind, status \in Statuses, trackOk \in BOOLEAN :
          LateCallback(ch, status, trackOk)
    \/ \E u \in TypingSenders, isTyping \in BOOLEAN : TypingBroadcast(u, isTyping)
    \/ \E s \in [{Peer} -> { <<>>, <<1>>, <<2, 1>> }] : PresenceSync(s)

SpecSignals == Init /\ [][NextSignals]_vars

\* Presence and typing of a joined channel with several members: members come,
\* go and signal while the user only watches.
NextPresence ==
    \/ \E c \in ChatConvs : Mount(c)
    \/ \E c \in ChatConvs, late \in {FALSE} : Switch(c, late)
    \/ \E late \in {FALSE} : Unmount(late)
    \/ StatusCallback("SUBSCRIBED", TRUE)
    \/ \E u \in TypingSenders \cup {SecondPeer}, isTyping \in BOOLEAN : TypingBroadcast(u, isTyping)
    \/ \E s \in PresenceSnapshots({Self, Peer}) : PresenceSync(s)

SpecPresence == Init /\ [][NextPresence]_vars

\* The typing timer: the user types while time passes; nobody writes a row.
NextTyping ==
    \/ \E c \in ChatConvs : Mount(c)
    \/ \E c \in ChatConvs, late \in BOOLEAN : Switch(c, late)
    \/ \E late \in BOOLEAN : Unmount(late)
    \/ \E f \in BagToSet(fetches), ok \in BOOLEAN : FetchServe(f, ok)
    \/ \E f \in BagToSet(fetches) : FetchResponse(f)
    \/ \E status \in Statuses : StatusCallback(status, TRUE)
    \/ \E ch \in closing \cup leftBehind : LateCallback(ch, "CLOSED", TRUE)
    \/ \E text \in Texts : HandleTyping(text)
    \/ \E d \in {1000, 2000} : Tick(d)
    \/ \E t \in timers : TimerFire(t)

SpecTyping == Init /\ [][NextTyping]_vars

\* Sending: the user types, submits and uploads; the channel never joins, the
\* history fetches stay unanswered, and the store hands out its ids and
\* timestamps in order.
NextSend ==
    \/ \E c \in ChatConvs : Mount(c)
    \/ \E c \in ChatConvs, late \in {FALSE} : Switch(c, late)
    \/ \E late \in {FALSE} : Unmount(late)
    \/ \E text \in Texts : HandleTyping(text)
    \/ FormSubmit
    \/ \E i \in 1..MaxMsgs, ok \in BOOLEAN :
          SendMessageDone(i, ok, IF ok THEN Cardinality(msgs) + 1 ELSE 1, 1)
    \/ \E file \in 1..MaxFiles : UploadStart(file)
    \/ \E ok \in BOOLEAN : UploadDone(ok)

SpecSend == Init /\ [][NextSend]_vars

\* A conversation in use: the user types and submits while the channel is joined
\* and the history is answered; the store hands out its ids in order.
NextChat ==
    \/ \E c \in ChatConvs : Mount(c)
    \/ \E c \in ChatConvs, late \in {FALSE} : Switch(c, late)
    \/ \E late \in {FALSE} : Unmount(late)
    \/ \E f \in BagToSet(fetches), ok \in {TRUE} : FetchServe(f, ok)
    \/ \E f \in BagToSet(fetches) : FetchResponse(f)
    \/ StatusCallback("SUBSCRIBED", TRUE)
    \/ \E text \in Texts : HandleTyping(text)
    \/ FormSubmit
    \/ \E i \in 1..MaxMsgs, ok \in BOOLEAN :
          SendMessageDone(i, ok, IF ok THEN Cardinality(msgs) + 1 ELSE 1, 1)
    \/ \E id \in MsgIds : Notification(id)

SpecChat == Init /\ [][NextChat]_vars

\* A subscription that fails: every status the channel reports is an error, a
\* timeout or a close, while the user reads the history, types and submits.
NextDegraded ==
    \/ \E c \in ChatConvs : Mount(c)
    \/ \E c \in ChatConvs, late \in {FALSE} : Switch(c, late)
    \/ \E late \in {FALSE} : Unmount(late)
    \/ \E f \in BagToSet(fetches), ok \in BOOLEAN : FetchServe(f, ok)
    \/ \E f \in BagToSet(fetches) : FetchResponse(f)
    \/ \E status \in Statuses \ {"SUBSCRIBED"} : StatusCallback(status, TRUE)
    \/ \E text \in Texts : HandleTyping(text)
    \/ FormSubmit
    \/ \E i \in 1..MaxMsgs, ok \in BOOLEAN :
          SendMessageDone(i, ok, IF ok THEN Cardinality(msgs) + 1 ELSE 1, 1)

SpecDegraded == Init /\ [][NextDegraded]_vars

\* The ChatWindow that keeps no channelRef: the conversation changes, the
\* channel reports its statuses, the user types and time passes; a removal has
\* completed when the cleanup returns, and nobody writes a row.
NextTypingNoRef ==
    \/ \E c \in ChatConvs : Mount(c)
    \/ \E c \in ChatConvs : SwitchNoRef(c, FALSE)
    \/ UnmountNoRef(FALSE)
    \/ \E f \in BagToSet(fetches), ok \in BOOLEAN : FetchServe(f, ok)
    \/ \E f \in BagToSet(fetches) : FetchResponse(f)
    \/ \E ch \in {channel} \cup closing \cup leftBehind, status \in Statuses :
          StatusCallbackNoRef(ch, status, TRUE)
    \/ \E text \in Texts, fresh \in BOOLEAN : HandleTypingNoRef(text, fresh)
    \/ \E d \in {1000, 2000} : Tick(d)
    \/ \E t \in timers : TimerFire(t)

SpecTypingNoRef == Init /\ [][NextTypingNoRef]_vars

\* The same ChatWindow opened and closed while its channels report their
\* statuses, in time or after their removal, and the peers signal.
NextSignalsNoRef ==
    \/ \E c \in ChatConvs : Mount(c)
    \/ \E c \in ChatConvs, late \in BOOLEAN : SwitchNoRef(c, late)
    \/ \E late \in BOOLEAN : UnmountNoRef(late)
    \/ \E ch \in {channel} \cup closing \cup leftBehind, status \in Statuses,
          trackOk \in BOOLEAN : StatusCallbackNoRef(ch, status, trackOk)
    \/ \E u \in TypingSenders, isTyping \in BOOLEAN : TypingBroadcastNoRef(u, isTyping)
    \/ \E s \in [{Peer} -> { <<>>, <<1>>, <<2, 1>> }] : PresenceSync(s)

SpecSignalsNoRef == Init /\ [][NextSignalsNoRef]_vars

\* The same ChatWindow in use: the channel joins, the history is answered, a
\* peer writes rows, and the user types, submits and uploads; the store hands
\* out its ids in order.
NextChatNoRef ==
    \/ \E c \in ChatConvs : Mount(c)
    \/ UnmountNoRef(FALSE)
    \/ \E f \in BagToSet(fetches) : FetchServe(f, TRUE)
    \/ \E f \in BagToSet(fetches) : FetchResponse(f)
    \/ StatusCallbackNoRef(channel, "SUBSCRIBED", TRUE)
    \/ \E id \in MsgIds, ts \in 1..MaxTs :
          id = Cardinality(msgs) + 1 /\ OtherInsert(id, 1, ts)
    \/ \E id \in MsgIds : NotificationNoRef(id)
    \/ \E text \in Texts : HandleTypingNoRef(text, FALSE)
    \/ FormSubmitNoRef
    \/ \E i \in 1..MaxMsgs, ok \in BOOLEAN :
          SendMessageDone(i, ok, IF ok THEN Cardinality(msgs) + 1 ELSE 1, 1)
    \/ UploadStart(1)
    \/ \E ok \in BOOLEAN : UploadDoneNoRef(ok)

SpecChatNoRef == Init /\ [][NextChatNoRef]_vars

\* The conversation list of Self, mounted and unmounted while other clients
\* create direct conversations and link participants; the subscribed channel
\* hears every link, a notification arrives while no refresh is running, and
\* any request may fail.
NextList ==
    \/ ListMount(Self)
    \/ ListUnmount
    \/ \E id \in 1..MaxListConvs, ts \in 1..MaxTs :
          id = Cardinality(conversations) + 1 /\ OtherConversation(id, FALSE, <<>>, ts)
    \/ \E c \in 1..MaxListConvs, u \in Users : OtherLink(c, u, TRUE)
    \/ \E n \in listNotes : listFetches = <<>> /\ ListNotification(n)
    \/ ListFetch(BOOLEAN)

SpecList == Init /\ [][NextList]_vars

\* The enrichment: the list is mounted for Self while the store holds direct and
\* group conversations, named or not, created at distinct instants; the store
\* answers every request and a notification arrives while no refresh is running.
NextListEnrich ==
    \/ ListMount(Self)
    \/ \E id \in 1..MaxListConvs, is_group \in BOOLEAN, name \in GroupNames :
          /\ id = Cardinality(conversations) + 1
          /\ ~is_group => name = <<>>
          /\ OtherConversation(id, is_group, name, id)
    \/ \E c \in 1..MaxListConvs, u \in Users : OtherLink(c, u, TRUE)
    \/ \E n \in listNotes : listFetches = <<>> /\ ListNotification(n)
    \/ ListFetch({TRUE})

SpecListEnrich == Init /\ [][NextListEnrich]_vars

\* The push-driven refresh: the list is mounted for Self, given the identity of
\* Peer, or unmounted; the store creates its rows at distinct instants and
\* answers every request, and the subscribed channel hears every link.
NextListPush ==
    \/ ListMount(Self)
    \/ ListIdentityChange(Peer)
    \/ ListUnmount
    \/ \E id \in 1..MaxPushConvs :
          id = Cardinality(conversations) + 1 /\ OtherConversation(id, FALSE, <<>>, id)
    \/ \E c \in 1..MaxPushConvs, u \in Users : OtherLink(c, u, TRUE)
    \/ \E n \in listNotes : ListNotification(n)
    \/ ListFetch({TRUE})

SpecListPush == Init /\ [][NextListPush]_vars

\* ===================================================================== claims

\* The conversations that carry exactly the two participant links (A, B).
DirectConvs ==
    { c \in conversations :
        { p.user_id : p \in { q \in conversation_participants : q.conversation_id = c.id } }
          = Users }

\* C1: once the createChat calls of A (targeting B) and of B (targeting A) have both
\* finished with onCreated, exactly one conversation carrying the two participant
\* links exists and both callers were given the same conversation id.
C1_OneConversationPerPair ==
    (\A u \in Users : modal[u].pc = "closed" /\ modal[u].created # 0) =>
        /\ Cardinality(DirectConvs) = 1
        /\ modal["A"].created = modal["B"].created

\* C2: the rendered message list never holds two entries with the same message id.
C2_NoDuplicateIds ==
    \A i, j \in 1..Len(messages) : i # j => messages[i].id # messages[j].id

\* C2 witness: the history has arrived and both rendered rows were also notified.
C2_Witness ==
    /\ subscribed /\ ~loading
    /\ Len(messages) = 2
    /\ \A i \in 1..Len(messages) : messages[i].id \in notifiable

\* C3: the rendered list is ascending by (created timestamp, id).
C3_SortedByTimeThenId ==
    \A i \in 1..(Len(messages) - 1) :
        \/ messages[i].created_at < messages[i + 1].created_at
        \/ /\ messages[i].created_at = messages[i + 1].created_at
           /\ messages[i].id < messages[i + 1].id

\* C4: a switch from conversation X to Y removes X's channel and clears the message
\* list, the presence map and the typing set, and the list then stays empty until
\* data of Y arrives.
C4_SwitchClearsUntilNewData ==
    [][ /\ (conversationId # NoConv /\ conversationId' \notin {NoConv, conversationId}) =>
              /\ messages' = <<>> /\ presenceState' = {} /\ typingUsers' = <<>>
              /\ channel' # channel /\ channel'.conv = conversationId'
              /\ notifiable' = {}
        /\ (messages = <<>> /\ messages' # <<>>) =>
              \A i \in 1..Len(messages') : messages'[i].conversation_id = conversationId'
      ]_vars

\* C5: every rendered message belongs to the active conversation (a history response
\* for a conversation that is no longer active is discarded).
C5_OnlyActiveConversation ==
    \A i \in 1..Len(messages) : messages[i].conversation_id = conversationId

\* The typing=false broadcasts sent since the last keystroke.
FalseSent == { i \in 1..Len(sentLog) : ~sentLog[i].isTyping }

\* C6: while a conversation stays active, at most one typing-false timer is pending;
\* a burst of keystrokes on a channel is followed by exactly one typing=false
\* broadcast (pending or sent), sent on the same channel and only once
\* TYPING_TIMEOUT_MS have passed since the last keystroke.
C6_TypingDebounce ==
    /\ Cardinality(timers) <= 1
    /\ Cardinality(FalseSent) <= 1
    /\ \A t \in timers : t.remaining + sinceKey = TYPING_TIMEOUT_MS
    /\ FalseSent # {} => sinceKey >= TYPING_TIMEOUT_MS
    /\ sentLog = <<>> => timers = {}
    /\ sentLog # <<>> =>
          /\ sentLog[1].isTyping
          /\ Len(sentLog) = 1 => \E t \in timers : t.chan.id = sentLog[1].chan
          /\ Len(sentLog) > 1 =>
                /\ timers = {}
                /\ Len(sentLog) = 2 /\ ~sentLog[2].isTyping
                /\ sentLog[2].chan = sentLog[1].chan

\* C6 witness: a keystroke went out and its quiet period ended with one typing=false.
C6_Witness ==
    /\ Len(sentLog) = 2 /\ sentLog[1].isTyping /\ ~sentLog[2].isTyping
    /\ timers = {} /\ typingTimeoutRef # 0
    /\ newMessage = <<"a", " ">>

\* C7: the typing-indicator set never holds the client's own identity.
C7_NoSelfTyping ==
    \A i \in 1..Len(typingUsers) : typingUsers[i] # Self

\* C7 witness: the typing handler has run and the peer is shown as typing.
C7_Witness == subscribed /\ typingUsers = <<Peer>>

\* C8: sendMessage called from the form with empty or whitespace-only text and no
\* attachment issues no insert and changes neither `sending` nor the composer text.
C8_BlankSendIsNoOp ==
    [][ (FormSubmit /\ Trim(newMessage) = <<>>) =>
            /\ inflight' = inflight /\ msgs' = msgs
            /\ sending' = sending /\ newMessage' = newMessage
      ]_vars

\* C8 witness: the last sendMessage call had whitespace-only text and did nothing.
C8_Witness ==
    /\ lastSend.outcome = "rejected"
    /\ lastSend.content = <<" ">> /\ lastSend.attachments = <<>>
    /\ ~sending /\ inflight = <<>> /\ msgs = {} /\ newMessage = <<" ">>

\* C9: at most one message insert of the ChatWindow is outstanding at any time.
C9_OneInsertInFlight == Len(inflight) <= 1

\* The files attached to a row or to an insert request.
FilesOf(atts) == IF atts = NoAttachments THEN {} ELSE { atts[i] : i \in 1..Len(atts) }

\* C10: a message embedding an attachment is inserted only after that attachment was
\* uploaded; a failed upload inserts nothing, shows an error, leaves the composer
\* text unchanged and resets `uploading`.
C10_UploadBeforeMessage ==
    /\ [](/\ \A m \in msgs : FilesOf(m.attachments) \subseteq storage
          /\ \A i \in 1..Len(inflight) : FilesOf(inflight[i].attachments) \subseteq storage)
    /\ [][ (upload.phase = "uploading" /\ upload'.phase = "idle"
             /\ upload.filePath \notin storage') =>
               /\ msgs' = msgs /\ inflight' = inflight
               /\ newMessage' = newMessage
               /\ alertShown' /\ ~uploading'
         ]_vars

\* C10 witness: an upload has failed with text in the composer.
C10_Witness ==
    /\ alertShown /\ ~uploading /\ upload = NoUpload
    /\ newMessage = <<"a", " ">> /\ storage = {} /\ msgs = {} /\ inflight = <<>>

\* C11: a createChat whose search finds a conversation holding the links of both
\* identities passes that conversation's id to onCreated and inserts nothing; so
\* when the calls run one after the other, at most one such conversation ever
\* exists, nothing is inserted once it exists, and every call returns its id.
C11_ReuseExisting ==
    /\ [][ \A k \in Callers :
              LET u == CurrentUserId(k) IN
              (CreateChatSearch(k, Answered) /\ CountsEqual2(u, modal[k].profile) # {}) =>
                 /\ modal'[u].created \in CountsEqual2(u, modal[k].profile)
                 /\ modal'[u].closed /\ modal'[u].error = ""
                 /\ conversations' = conversations
                 /\ conversation_participants' = conversation_participants
         ]_vars
    /\ [][ DirectConvs # {} =>
              /\ conversations' = conversations
              /\ conversation_participants' = conversation_participants
         ]_vars
    /\ [](/\ Cardinality(DirectConvs) <= 1
          /\ \A u \in Users : modal[u].created # 0 =>
                 modal[u].created \in { c.id : c \in DirectConvs })

\* C11 witness: B created the conversation and A's later call reused it.
C11_Witness ==
    /\ modal["B"].pc = "closed" /\ modal["B"].conv = 1 /\ modal["B"].created = 1
    /\ modal["A"].pc = "closed" /\ modal["A"].conv = 0 /\ modal["A"].created = 1
    /\ Cardinality(conversations) = 1 /\ Cardinality(conversation_participants) = 2

\* C12: when the search that follows a failed participant insert resolves, a found
\* conversation's id (never the id of the row this call inserted) goes to onCreated
\* and no error is shown; when none is found the failure of the participant insert
\* (its message, or "Failed to add participants." when it has none) is shown in
\* the dialog the call was started from, if that is still on screen, and
\* onCreated is not called.
C12_RaceHandling ==
    [][ \A k \in Callers :
          LET u == CurrentUserId(k) IN
          CreateChatResearch(k, Answered) =>
             IF CountsEqual2(u, modal[k].profile) # {}
             THEN /\ modal'[u].created \in CountsEqual2(u, modal[k].profile)
                  /\ modal'[u].created # modal[k].conv
                  /\ modal'[u].closed /\ modal'[u].error = ""
             ELSE /\ modal[k].partInsertError.failed
                  /\ IF k = u
                     THEN /\ modal'[u].error = (IF modal[k].partInsertError.message # ""
                                                THEN modal[k].partInsertError.message
                                                ELSE ErrAddParts)
                          /\ modal'[u].created = 0 /\ ~modal'[u].closed
                     ELSE modal'[u] = modal[u]
      ]_vars

\* C12 witness: a call whose participant insert failed ended with another
\* conversation's id.
C12_Witness ==
    \E u \in Users :
        /\ modal[u].pc = "closed" /\ modal[u].conv # 0
        /\ modal[u].partInsertError.failed
        /\ modal[u].created # 0 /\ modal[u].created # modal[u].conv
        /\ modal[u].error = ""

\* C13: a lookup that finds no profile, or finds the caller's own profile, ends
\* the call with its error shown in the dialog it was started from, if that is
\* still on screen, onCreated and onClose not called, and both tables as they
\* were.
C13_LookupRejects ==
    /\ [][ \A k \in Callers :
              LET found == { p \in profiles : p.email = modal[k].target }
                  u == CurrentUserId(k) IN
              (CreateChatLookup(k, Answered) /\ (found = {} \/ \E p \in found : p.id = u)) =>
                 /\ IF k = u
                    THEN /\ modal'[u].error = (IF found = {} THEN ErrNotFound ELSE ErrSelf)
                         /\ modal'[u].pc = "idle" /\ ~modal'[u].loading
                         /\ modal'[u].created = 0 /\ ~modal'[u].closed
                    ELSE modal'[u] = modal[u]
                 /\ conversations' = conversations
                 /\ conversation_participants' = conversation_participants
         ]_vars
    /\ [](\A u \in Users : modal[u].error \in {ErrNotFound, ErrSelf} =>
              /\ modal[u].created = 0 /\ ~modal[u].closed
              /\ modal[u].pc = "idle")

\* C13 witness: A entered its own address and B an address nobody signed up with.
C13_Witness ==
    /\ modal["A"].error = ErrSelf /\ modal["A"].pc = "idle"
    /\ modal["B"].error = ErrNotFound /\ modal["B"].pc = "idle"
    /\ conversations = {} /\ conversation_participants = {}

\* The conversations that hold a participant link of identity u.
ConvsOf(u) ==
    { c.id : c \in { r \in conversations :
                       [conversation_id |-> r.id, user_id |-> u] \in conversation_participants } }

\* The ids of the entries of a listing.
IdsIn(l) == { l[k].id : k \in 1..Len(l) }

\* C14: a fetchConversations call for identity u that completes sets the listing to
\* exactly the conversations u was linked to when the links were read, each once,
\* newest created first; with no link the listing becomes empty, nothing fails and
\* the two later selects are not issued.
C14_ListingOfIdentity ==
    /\ [][ \A i \in 1..Len(listFetches) :
              ListFetchLinks(i, TRUE) =>
                 /\ listFetches'[i].ids = ConvsOf(listFetches[i].user)
                 /\ listFetches'[i].phase = (IF ConvsOf(listFetches[i].user) = {}
                                             THEN "empty" ELSE "convs")
         ]_vars
    /\ [][ \A i \in 1..Len(listFetches) :
              (ListFetchResume(i) /\ listFetches[i].phase # "failed") =>
                 /\ IdsIn(listing') = listFetches[i].ids
                 /\ Len(listing') = Cardinality(listFetches[i].ids)
                 /\ IdsIn(listing') \subseteq ConvsOf(listFetches[i].user)
                 /\ \A k \in 1..(Len(listing') - 1) :
                       listing'[k].created_at >= listing'[k + 1].created_at
                 /\ ~listLoading'
         ]_vars
    /\ [](\A i \in 1..Len(listFetches) :
             listFetches[i].phase = "empty" =>
                /\ listFetches[i].ids = {}
                /\ listFetches[i].convData = <<>> /\ listFetches[i].result = <<>>)

\* C14 witness: Self's list shows its two conversations, the newer one first, while
\* the store holds them.
C14_Witness ==
    /\ listUser = Self /\ ~listLoading /\ listFetches = <<>>
    /\ Len(listing) = 2 /\ listing[1].created_at > listing[2].created_at
    /\ IdsIn(listing) = ConvsOf(Self)

\* C15: a failing select of fetchConversations ends the call: no later select is
\* issued, the displayed listing stays as it was, and loading becomes false.
C15_FailedRefreshKeepsListing ==
    /\ [][ \A i \in 1..Len(listFetches) :
              (ListFetchLinks(i, FALSE) \/ ListFetchConvs(i, FALSE) \/ ListFetchParts(i, FALSE)) =>
                 listFetches'[i].phase = "failed" /\ listing' = listing
         ]_vars
    /\ [][ \A i \in 1..Len(listFetches) :
              (ListFetchResume(i) /\ listFetches[i].phase = "failed") =>
                 listing' = listing /\ ~listLoading'
         ]_vars

\* C15 witness: a refresh has failed while a conversation is displayed.
C15_Witness ==
    /\ listing # <<>>
    /\ \E i \in 1..Len(listFetches) : listFetches[i].phase = "failed"

\* C18: the handler of an insert notification starts exactly one fetchConversations
\* for the mounted identity; only the channel filtered on the mounted identity is
\* subscribed, so after an unmount or a change of identity no notification for
\* the old identity is handled and no refresh is started for it.
C18_PushDrivenRefresh ==
    /\ [][ \A n \in listNotes :
              ListNotification(n) =>
                 /\ n.user = listUser
                 /\ listFetches' = Append(listFetches, NewFetch(listUser))
         ]_vars
    /\ [][ Len(listFetches') > Len(listFetches) =>
              /\ listUser' # None
              /\ listFetches'[Len(listFetches')].user = listUser'
         ]_vars
    /\ [](/\ listChannels = (IF listUser = None THEN {} ELSE {listUser})
          /\ \A n \in listNotes : n.user = listUser)

\* C18 witness: besides the fetch of the mount, a refresh started by a
\* notification is running for Self.
C18_Witness ==
    /\ listUser = Self /\ listNotes = {}
    /\ Len(listFetches) = 2
    /\ \A i \in 1..Len(listFetches) : listFetches[i].user = Self
    /\ [conversation_id |-> 1, user_id |-> Self] \in conversation_participants

\* The channels the session's ChatWindows have opened whose removal has not
\* completed.
OpenChannels ==
    (IF channel # NoChannel THEN {channel} ELSE {}) \cup typingChannels \cup closing
        \cup leftBehind

\* C16: the ChatWindow holds at most one open channel, and while a conversation is
\* active that channel is the one scoped to the active conversation.
C16_OneChannelForActive ==
    /\ Cardinality(OpenChannels) <= 1
    /\ conversationId # NoConv =>
          \E ch \in OpenChannels : OpenChannels = {ch} /\ ch.conv = conversationId

\* C17: the controller is Idle exactly while no channel exists; a step that opens
\* the channel of a conversation has cleared the list, the presence map and the
\* typing set and issued that conversation's history fetch (Loading, then Live);
\* and when a step leaves a conversation its Closing has completed before
\* anything of the next conversation is set up: the presence entry is gone, the
\* typing timer is cancelled and the channel is released.
C17_ControllerOrder ==
    /\ [](/\ (conversationId = NoConv) <=> (channel = NoChannel)
          /\ conversationId # NoConv => channel.conv = conversationId)
    /\ [][ (channel' # channel /\ channel' # NoChannel) =>
              /\ loading' /\ messages' = <<>> /\ presenceState' = {} /\ typingUsers' = <<>>
              /\ ~subscribed'
              /\ \E f \in BagToSet(fetches') : f.conv = channel'.conv /\ f.phase = "req"
              /\ fetches \sqsubseteq fetches'
         ]_vars
    /\ [][ (channel # NoChannel /\ channel' # channel) =>
              /\ channel.id \notin tracked'
              /\ channelRef' = NoChannel
              /\ \A t \in timers' : t.id # typingTimeoutRef
              /\ channel \notin OpenChannels'
         ]_vars

\* C19: a presence entry of this client appears only in the subscribe callback run
\* with SUBSCRIBED, of the open channel or of a removed one; a failing track
\* changes neither the messages, the typing set nor the channel.
C19_TrackOnlyOnSubscribed ==
    /\ [][ ~(tracked' \subseteq tracked) =>
              \/ /\ StatusCallback("SUBSCRIBED", TRUE)
                 /\ tracked' = tracked \cup {channel.id}
              \/ \E ch \in closing \cup leftBehind :
                    /\ LateCallback(ch, "SUBSCRIBED", TRUE)
                    /\ tracked' = tracked \cup {ch.id}
         ]_vars
    /\ [][ \A status \in Statuses \ {"SUBSCRIBED"}, trackOk \in BOOLEAN :
              /\ StatusCallback(status, trackOk) => tracked' = tracked
              /\ \A ch \in closing \cup leftBehind :
                    LateCallback(ch, status, trackOk) => tracked' = tracked
         ]_vars
    /\ [][ (StatusCallback("SUBSCRIBED", FALSE)
            \/ \E ch \in closing \cup leftBehind : LateCallback(ch, "SUBSCRIBED", FALSE)) =>
              /\ tracked' = tracked
              /\ messages' = messages /\ typingUsers' = typingUsers /\ channel' = channel
         ]_vars

\* C19 witness: the channel reported SUBSCRIBED and the presence entry is tracked.
C19_Witness ==
    subscribed /\ tracked = {channel.id} /\ channelRef = channel

\* C20: no presence entry of this client is tracked on a channel the ChatWindow has
\* left, whatever the order of status callbacks and cleanup, a SUBSCRIBED that
\* arrives after the cleanup included.
C20_NoPresenceAfterLeave ==
    /\ [](tracked \subseteq (IF channel # NoChannel THEN {channel.id} ELSE {}))
    /\ [][ (channel # NoChannel /\ channel' # channel) => channel.id \notin tracked' ]_vars

\* C21: after each presence sync the presence map is the map built from the
\* snapshot alone: every key of the snapshot with a non-empty entry list is in
\* the map with the first entry of its list, and the map holds nothing else, so
\* a key of an earlier snapshot that is absent from (or empty in) the new one
\* is not in the map.
C21_SyncReplaces ==
    [][\A s \in PresenceSnapshots({Self, Peer}) :
          PresenceSync(s) =>
             /\ \A k \in DOMAIN s : s[k] # <<>> => <<k, Head(s[k])>> \in presenceState'
             /\ \A e \in presenceState' :
                   e[1] \in DOMAIN s /\ s[e[1]] # <<>> /\ e[2] = Head(s[e[1]])]_vars

C21_Witness == subscribed /\ presenceState = { <<Peer, 2>> }

\* Whether the identity u is in the list l, and how often.
C22_Count(l, u) == Cardinality({ i \in 1..Len(l) : l[i] = u })

\* C22: the typing set follows the last broadcast of every other identity: a
\* broadcast of u (not Self) puts u in typingUsers exactly when it carries
\* isTyping = true and moves no other identity in or out; a broadcast of Self
\* or without user_id changes nothing; entering a conversation empties the set
\* and no other step changes it; each identity is in the list at most once.
C22_TypingFollowsLastBroadcast ==
    /\ [](\A u \in TypingSenders \cup {SecondPeer} :
            C22_Count(typingUsers, u) <= (IF u \in {Self, None} THEN 0 ELSE 1))
    /\ [][\A u \in TypingSenders \cup {SecondPeer}, isTyping \in BOOLEAN :
            TypingBroadcast(u, isTyping) =>
               IF u = None \/ u = Self
               THEN typingUsers' = typingUsers
               ELSE /\ (C22_Count(typingUsers', u) = 1) <=> isTyping
                    /\ \A v \in (TypingSenders \cup {SecondPeer}) \ {u} :
                          C22_Count(typingUsers', v) = C22_Count(typingUsers, v)]_vars
    /\ [][typingUsers' # typingUsers =>
            \/ \E u \in TypingSenders \cup {SecondPeer}, isTyping \in BOOLEAN :
                  TypingBroadcast(u, isTyping)
            \/ typingUsers' = <<>> /\ conversationId' # conversationId]_vars

C22_Witness == subscribed /\ typingUsers = <<SecondPeer, Peer>>

\* C23: every keystroke in the composer of an active ChatWindow sends exactly
\* one typing = true broadcast on the channel of the active conversation, also
\* while no subscribe-status callback of that channel has arrived yet.
C23_KeystrokeBroadcasts ==
    [][\A text \in Texts :
          HandleTyping(text) =>
             /\ channel # NoChannel /\ channel.conv = conversationId
             /\ sentLog' = << [chan |-> channel.id, isTyping |-> TRUE] >>]_vars

\* C24: after conversation X was left no typing broadcast, true or false, is
\* sent on X's channel: every broadcast of a keystroke and of the typing timer
\* goes to a channel of the conversation that is active at that moment.
C24_NoBroadcastAfterLeave ==
    [][/\ \A text \in Texts :
             HandleTyping(text) /\ sentLog' # <<>> => channelRef.conv = conversationId
       /\ \A t \in timers :
             TimerFire(t) => t.chan.conv = conversationId]_vars

\* C25: sendMessage never changes the rendered list: a step in which sendMessage
\* starts, is rejected or resumes after its insert (succeeded or failed) leaves
\* `messages` as it was, and the list changes only by a history response, by a
\* row-insert notification or by the reset on entering or leaving a conversation.
C25_SendLeavesListAlone ==
    /\ [][(inflight' # inflight \/ lastSend' # lastSend) /\ conversationId' = conversationId
            => messages' = messages]_vars
    /\ [][messages' # messages =>
            \/ \E f \in BagToSet(fetches) : f.phase = "resp" /\ fetches' = fetches (-) SetToBag({f})
            \/ \E m \in msgs : m.id \in notifiable /\ m.id \in { messages'[k].id : k \in 1..Len(messages') }
                                /\ Len(messages') = Len(messages) + 1 /\ msgs' = msgs
            \/ messages' = <<>> /\ conversationId' # conversationId]_vars

\* C25 witness: two own rows are stored, the insert of the second has returned,
\* and the list shows only the first, whose notification was delivered.
C25_Witness ==
    /\ Cardinality({ m \in msgs : m.sender_id = Self }) = 2
    /\ inflight = <<>> /\ ~sending
    /\ Len(messages) = 1 /\ messages[1].sender_id = Self

\* C26: when the insert of sendMessage fails an error message is shown to the
\* user, the composer text stays and `sending` returns to false; when it succeeds
\* the composer text is cleared and `sending` returns to false.
C26_InsertOutcome ==
    [][\A i \in 1..MaxMsgs :
          /\ SendMessageDone(i, FALSE, 1, 1) =>
                alertShown' /\ newMessage' = newMessage /\ ~sending'
          /\ \A id \in MsgIds :
                SendMessageDone(i, TRUE, id, 1) => newMessage' = <<>> /\ ~sending']_vars

\* The ids of the rows of a rendered list.
C27_Ids(l) == { l[k].id : k \in 1..Len(l) }

\* C27: when the history fetch of the active conversation fails the list is left
\* as it is (no history entry is added), `loading` becomes false, and every
\* row-insert notification handled afterwards still puts its row in the list.
C27_FailedHistory ==
    /\ [][\A f \in BagToSet(fetches) :
            (/\ f.phase = "resp" /\ f.error /\ f.conv = conversationId
             /\ fetches' = fetches (-) SetToBag({f}) /\ conversationId' = conversationId)
            => messages' = messages /\ ~loading']_vars
    /\ [][\A id \in MsgIds : Notification(id) =>
            /\ C27_Ids(messages') = C27_Ids(messages) \cup {id}
            /\ loading' = loading]_vars

\* C27 witness: the fetch has ended, the stored history of the active
\* conversation was not added, and a row notified later is shown.
C27_Witness ==
    /\ conversationId # NoConv /\ ~loading /\ fetches = EmptyBag
    /\ Len(messages) = 1 /\ messages[1].id \in notifiable
    /\ \E m \in msgs : /\ m.conversation_id = conversationId
                        /\ m.id \notin notifiable /\ m.id \notin C27_Ids(messages)

\* C28: while the subscription never reaches SUBSCRIBED the view stays usable:
\* a history response is applied to the list and sets `loading` to false, a
\* submit with text issues its insert and a successful insert stores the row;
\* only the presence registration never happens.
C28_SubscriptionFailureNonFatal ==
    /\ [](~subscribed /\ tracked = {})
    /\ [][\A f \in BagToSet(fetches) :
            (/\ f.phase = "resp" /\ fetches' = fetches (-) SetToBag({f})
             /\ conversationId' = conversationId)
            => /\ ~loading'
               /\ ~f.error => messages' = f.data]_vars
    /\ [][(FormSubmit /\ Trim(newMessage) # <<>> /\ ~sending)
            => Len(inflight') = Len(inflight) + 1]_vars
    /\ [][\A i \in 1..MaxMsgs, id \in MsgIds :
            SendMessageDone(i, TRUE, id, 1) =>
               \E m \in msgs' \ msgs : /\ m.id = id /\ m.sender_id = Self
                                        /\ m.conversation_id = inflight[i].conversation_id]_vars

\* C28 witness: the channel has reported a failure, the history of one stored
\* row is shown, and a second row was inserted from this view afterwards.
C28_Witness ==
    /\ channel # NoChannel /\ channelRef = channel /\ ~subscribed /\ tracked = {}
    /\ ~loading /\ Len(messages) = 1
    /\ Cardinality({ m \in msgs : m.conversation_id = conversationId }) = 2
    /\ inflight = <<>>

\* The stored row of conversation c and the identities linked to it.
C29_Row(c) == CHOOSE r \in conversations : r.id = c
C29_Members(c) == { p.user_id : p \in { q \in conversation_participants : q.conversation_id = c } }

\* What the claim asks of one element e of a listing built for identity u.
C29_ElementOk(e, u) ==
    IF C29_Row(e.id).is_group
    THEN e.display_name = (IF C29_Row(e.id).name = <<>> THEN <<"Group Chat">>
                           ELSE C29_Row(e.id).name)
    ELSE IF C29_Members(e.id) \ {u} # {}
         THEN \E v \in C29_Members(e.id) \ {u} :
                 e.other_user = { (CHOOSE p \in profiles : p.id = v).email }
         ELSE u \in C29_Members(e.id) =>
                 e.other_user = { (CHOOSE p \in profiles : p.id = u).email }

\* C29: when fetchConversations builds its listing, every direct conversation
\* shows the profile of a participant other than the current identity if there
\* is one and the own profile only if there is none, and every group shows its
\* stored name, or the fallback label when the name is empty.
C29_DisplayIdentity ==
    [][\A i \in 1..Len(listFetches) :
          (/\ listFetches[i].phase = "parts" /\ Len(listFetches') = Len(listFetches)
           /\ listFetches'[i].phase = "ready")
          => \A k \in 1..Len(listFetches'[i].result) :
                C29_ElementOk(listFetches'[i].result[k], listFetches[i].user)]_vars

\* C29 witness: the listing shows an unnamed group under the fallback label and
\* a conversation whose only participant is the current identity under its own
\* profile.
C29_Witness ==
    /\ listUser = Self /\ Len(listing) = 2
    /\ \E i, j \in 1..2 :
          /\ listing[i].is_group /\ listing[i].display_name = <<"Group Chat">>
          /\ ~listing[j].is_group /\ C29_Members(listing[j].id) = {Self}
          /\ listing[j].other_user = { <<"a">> }

\* C30: no message is lost by the merge of history and live stream: a row of the
\* active conversation that a notification has put in the list stays in the
\* list for as long as the conversation is not left, also across the step in
\* which the response of that conversation's history fetch is applied.
C30_NoMessageLost ==
    [][\A k \in 1..Len(messages) :
          (/\ conversationId' = conversationId
           /\ messages[k].conversation_id = conversationId
           /\ messages[k].id \in notifiable)
          => \E j \in 1..Len(messages') : messages'[j].id = messages[k].id]_vars

\* C31: in every reachable state channelRef is null or the channel of the
\* currently active conversation, whatever the order of the status callbacks,
\* the cleanup and the next setup.
C31_ChannelRefIsActive ==
    channelRef = NoChannel \/ (channelRef = channel /\ channel.conv = conversationId)

\* C32: every conversation id that createChat passes to onCreated denotes, when
\* it is passed, a non-group conversation whose participants are exactly the
\* caller and the target.
C32_CreatedIsDirectPair ==
    [][\A k \in Callers, id \in ConvIds :
         (modal[k].pc \notin {"idle", "closed"} /\ Succeed(k, id)) =>
            /\ \A r \in conversations' : r.id = id => ~r.is_group
            /\ { p.user_id : p \in { q \in conversation_participants' :
                                        q.conversation_id = id } }
                 = {CurrentUserId(k), modal[k].profile}]_vars

\* C33: whenever no createChat call is in progress, every conversation row a
\* createChat call inserted carries the participant links of both identities.
C33_NoOrphanConversation ==
    (\A k \in Callers : modal[k].pc \in {"idle", "closed"}) =>
        \A r \in conversations :
            \A u \in Users :
                [conversation_id |-> r.id, user_id |-> u] \in conversation_participants

\* C38: every createChat call ends with loading false and exactly one outcome:
\* onCreated was called with a conversation id, onClose was called and no error
\* is set; or an error message is set and neither onCreated nor onClose was
\* called. While a call runs it has produced no outcome yet. A step that
\* changes a session's dialog and leaves no call running in it is the end of a
\* call, unless it leaves a fresh dialog or none (the setError of an orphaned
\* call has no dialog to change).
C38_SingleOutcome ==
    /\ [][\A u \in Users :
            (/\ modal'[u] # modal[u] /\ modal'[u] \notin {ModalInit, NoDialog}
             /\ modal'[u].pc \in {"idle", "closed"})
            => /\ ~modal'[u].loading
               /\ \/ /\ modal'[u].created # 0 /\ modal'[u].closed /\ modal'[u].error = ""
                  \/ /\ modal'[u].created = 0 /\ ~modal'[u].closed /\ modal'[u].error # ""]_vars
    /\ [](\A k \in Callers :
            modal[k].pc \notin {"idle", "closed"} =>
               /\ modal[k].loading = (k \in Users)
               /\ modal[k].error = ""
               /\ modal[k].created = 0 /\ ~modal[k].closed)

\* C38 witness: the call of a dialog that was closed while it ran has ended
\* with onCreated and onClose, which took the dialog opened after it off the
\* screen while its call waits for the search that follows its failed
\* participant insert.
C38_Witness ==
    /\ modal["A"] = [NoDialog EXCEPT !.created = 1, !.closed = TRUE]
    /\ modal["A2"].pc = "research" /\ ~modal["A2"].loading
    /\ modal["A2"].conv = 2 /\ modal["A2"].created = 0 /\ ~modal["A2"].closed
    /\ activeConversationId = 1 /\ ~showNewChatModal

\* C34: once all overlapping fetchConversations calls of a mounted list have
\* ended, the displayed listing is the one left by the call that was started
\* last, never that of a call started earlier.
C34_LatestRefreshWins ==
    (listUser # None /\ listFetches = <<>>) => listing = listObs.newest

\* C35: every typing = true broadcast is eventually followed by a typing = false
\* broadcast on the same channel, also across a switch or an unmount. The only
\* sender of typing = false is the timer armed with the typing = true, so the
\* claim asks that a pending timer never goes away unless it sends typing = false
\* on its channel in that step or is replaced by a timer on the same channel.
C35_TrueIsFollowedByFalse ==
    [][\A t \in timers :
          (\A n \in timers' : n.chan # t.chan) =>
             /\ sentLog' # <<>>
             /\ sentLog'[Len(sentLog')] = [chan |-> t.chan.id, isTyping |-> FALSE]
             /\ Len(sentLog') = Len(sentLog) + 1]_vars

\* What the claim asks of the columns of a row or insert request r.
C36_ColumnsOk(r) ==
    /\ r.sender_id = Self
    /\ r.content = Null \/
          (r.content # <<>> /\ r.content[1] # " " /\ r.content[Len(r.content)] # " ")
    /\ r.attachments = NoAttachments \/
          (r.attachments # <<>> /\ \A k \in 1..Len(r.attachments) : r.attachments[k] \in storage)
    /\ r.content # Null \/ r.attachments # NoAttachments

\* C36 (columns): every row sendMessage inserts has the own identity as sender,
\* a content that is the trimmed text or null, an attachment list that is
\* non-empty or null, and not both null.
C36_RowColumns ==
    /\ \A m \in msgs : C36_ColumnsOk(m)
    /\ \A i \in 1..Len(inflight) : C36_ColumnsOk(inflight[i])

\* C36: every row sendMessage inserts has the columns above and the id of the
\* conversation that is active when sendMessage is called.
C36_InsertedRow ==
    /\ [](C36_RowColumns)
    /\ [][Len(inflight') > Len(inflight) =>
            inflight'[Len(inflight')].conversation_id = conversationId]_vars

\* C36 as amended: every row sendMessage inserts has the columns above and the
\* id of the conversation in which the send was started: a submitted form
\* inserts into the active conversation, and a row that carries an attachment
\* belongs to the conversation in which its file was chosen and under whose
\* path the file is stored.
C36_InsertedRowOfItsRender ==
    /\ [](C36_RowColumns)
    /\ [][(upload.phase = "idle" /\ upload'.phase = "uploading") =>
            /\ conversationId # NoConv
            /\ upload'.filePath.conv = conversationId]_vars
    /\ [][(FormSubmit /\ Len(inflight') > Len(inflight)) =>
            inflight'[Len(inflight')].conversation_id = conversationId]_vars
    /\ [](/\ \A m \in msgs : \A p \in FilesOf(m.attachments) : p.conv = m.conversation_id
          /\ \A i \in 1..Len(inflight) :
                \A p \in FilesOf(inflight[i].attachments) : p.conv = inflight[i].conversation_id)

\* C36 witness: a row with an attachment and no text is stored in the
\* conversation in which its file was chosen while another one is active.
C36_Witness ==
    /\ conversationId # NoConv
    /\ \E m \in msgs : /\ m.attachments # NoAttachments /\ m.content = Null
                        /\ m.conversation_id # conversationId

\* C37: in App, for every ordering of the getSession response and the auth
\* state-change events, once a session has been applied (the view has left
\* LOADING): whenever the session is null the view is AUTH and the active
\* conversation id is null, so no ChatWindow is mounted and no conversation
\* channel is open; and the view is CHAT exactly when the last applied session
\* is non-null.
C37_SignedOutIsClean ==
    /\ (viewState # "LOADING" /\ session = None) =>
          /\ viewState = "AUTH"
          /\ activeConversationId = NoConv
          /\ conversationId = NoConv
          /\ channel = NoChannel
    /\ (viewState = "CHAT") <=> (session # None)

\* C39: once a run of the seed script has ended with success, no later run
\* inserts a conversation row, a participant link or a message row, and the
\* seeded conversation never holds alice or bob more than once.
C39_SeedIsIdempotent ==
    /\ [][seedRun.seeded => /\ conversations' = conversations
                            /\ conversation_participants' = conversation_participants
                            /\ msgs' = msgs]_vars
    /\ [](\A c \in ConvIds, u \in {Self, Peer} :
            Cardinality({ l \in conversation_participants :
                            l.conversation_id = c /\ l.user_id = u }) <= 1)

====
